-------------------------- MODULE Spec2Model --------------------------
(***************************************************************************)
(* Simulation core of Dungeon Quest: the ECS World (deferred entity        *)
(* addition and removal, system scheduling by priority), the four          *)
(* gameplay systems (Movement, Collision, AI, Combat), the synchronous     *)
(* combat:attack path and the Health / Combat / Player components.         *)
(*                                                                         *)
(* Quantisation: positions are integer coordinates on a line, Date.now()   *)
(* is the integer clock `now`, one World.update advances positions by one  *)
(* velocity unit (deltaTime = 1).  Entity ids are 1, 2, ... in creation    *)
(* order (Entity.nextId); id 0 stands for null.                            *)
(***************************************************************************)
EXTENDS Integers, Sequences, FiniteSets, TLC

\* ------------------------------------------------------------------ bounds
MaxEntities == 2
MaxIds == 3
MaxTime == 3
CountCap == 3
MaxHealth == 2
MaxAmount == 3
HealthCap == 4
MaxStat == 2
MaxLevel == 3
MaxCallbacks == 3
MaxDepth == 2
MaxObjects == 3

\* ------------------------------------------------------- program constants
MovementPriority == 10
CollisionPriority == 20
AIPriority == 25
CombatPriority == 30
DefaultPriority == 0
VarianceRange == 5
InitialExperienceToNext == 100
LevelUpStrength == 3
LevelUpDefense == 2
LevelUpHealth == 20
LevelUpStatPoints == 3

\* ------------------------------------------------------- data-driven values
\* (EntityFactory reads them from the game data; small stand-ins here)
PlayerHealth == 3
PlayerStrength == 1
PlayerDefense == 1
PlayerAttackRange == 1
PlayerCooldown == 1
EnemyHealth == 2
EnemyStrength == 1
EnemyDefense == 0
EnemyCooldown == 2
EnemyAggroRange == 2
EnemyAttackRange == 1
PropHealth == 1
MoveAcceleration == 1
EnemySpeed == 1
PlayerSpeed == 1
ArenaMax == 3
PlayerSpawn == 0
\* positions are counted in tiles (config.tileSize units each); ranges and
\* radii are lengths in units
TileSize == 10
\* updatePatrolBehavior: distanceToPatrol < 10
ArrivalRadius == 10
\* new SpatialGrid(100)
CellSize == 100
\* config.collider.radius: half a tile
FactoryRadius == 5

Ids == 1..MaxIds
NoEntity == 0
Positions == 0..ArenaMax
Kinds == {"player", "enemy", "prop", "tile"}
Behaviors == {"aggressive", "ranged", "patrol", "flee"}
ExpRewards == {50, 100}
SystemNames == {"Movement", "Collision", "AI", "Combat"}
\* amounts handed to takeDamage / heal: negative, zero, above every max
Amounts == (-MaxAmount)..MaxAmount
\* strength and defense values a CombatComponent is constructed with
Stats == 0..MaxStat
\* experience amounts handed to addExperience: below, at and above a level's need
ExpAmounts == {0, 5, 10, 45, 50, 100, 250}
\* event names, the callbacks at hand, and those that emit "b" when called
\* CollisionLayer but NONE and ALL
Layers == {"PLAYER", "ENEMY", "PROJECTILE", "WALL", "ITEM"}
\* colliders handed to checkCollision: ColliderComponent.circle(r) and
\* ColliderComponent.rectangle(w, h), with setOffset, setLayer and setMask
\* as the factories and the constructor set them, at points of a grid
Shapes ==
  {[shape |-> "circle", radius |-> r, width |-> 2 * r, height |-> 2 * r] :
     r \in {5, 10}}
  \cup {[shape |-> "rectangle", radius |-> 7, width |-> 10, height |-> 10],
        [shape |-> "rectangle", radius |-> 11, width |-> 20, height |-> 10]}
LayerMasks ==
  {[layer |-> "NONE", mask |-> Layers],
   [layer |-> "PLAYER", mask |-> {"ENEMY", "WALL", "ITEM"}],
   [layer |-> "ENEMY", mask |-> {"PLAYER", "WALL", "ENEMY"}],
   [layer |-> "WALL", mask |-> Layers]}
ColliderInputs ==
  {[shape |-> s.shape, radius |-> s.radius, width |-> s.width, height |-> s.height,
    x |-> x, y |-> y, offsetX |-> ox, offsetY |-> 0,
    layer |-> lm.layer, mask |-> lm.mask] :
     s \in Shapes, lm \in LayerMasks, x \in {0, 10, 20}, y \in {0, 10}, ox \in {0, 5}}
NoCollider == [shape |-> "none"]
NoCheck == [called |-> FALSE, ab |-> FALSE, ba |-> FALSE]
\* positions entities are placed at and radii they are built with: a radius is
\* a whole number of placement steps, so that half an overlap is a whole
\* number of tiles
Spots == {0, 2, 4, 6, 8, 10}
\* places in the grid cells 0, 0 and 2, and radii below and above CellSize
WideSpots == {0, 8, 20}
WideRadii == {40, 120}
RadiusChoices == {20, 40}
Events == {"a", "b"}
Callbacks == 1..MaxCallbacks
Emitters == {1}
\* the largest component of a velocity whose length cannot be compared
MaxComponent == 20
\* config.dungeon.maxEnemies
maxEnemies == 2
\* no pair of lifecycle requests was made
NoRequests == [called |-> FALSE, first |-> "none", second |-> "none", id |-> 0]
\* Game.trySpawnEnemy was not called
NoSpawn == [called |-> FALSE, enemyCount |-> 0, living |-> 0, blocked |-> FALSE,
            spawned |-> FALSE]

VARIABLES
  \* ---- Entity objects (World.ts 259-359) and their components
  nextId,            \* Entity.nextId
  kind,              \* which component bag the entity was built with
  active,            \* Entity._active
  current, max,      \* HealthComponent
  strength, defense, lastAttackTime,   \* CombatComponent
  pos, rotation, vel, \* TransformComponent.position/.rotation, MovementComponent.velocity
  behaviorType, aiState, targetId,     \* AIComponent
  reward,            \* EnemyComponent.experienceReward
  level, experience, experienceToNext, kills, statPoints,  \* PlayerComponent
  \* ---- World
  entities,          \* World.entities (a Map: ids in insertion order)
  entitiesToAdd, entitiesToRemove,
  systems,           \* World.systems, sorted by priority
  listening,         \* CombatSystem's combat:attack listener is registered
  outOfOrder,        \* observation: some addSystem call came after that of a
                     \* system of higher priority
  \* ---- position inside World.update
  pc, sysIdx, snapshot, queue, playerEntity,
  \* ---- clock
  now,
  \* ---- observation (history) variables
  ran,               \* systems whose update was called in the current World.update
  diedCount, killedCount,   \* entity:died / enemy:killed events per entity id
  frameDied,         \* ids death-handled in the current World.update
  aiKilled,          \* ids brought to health <= 0 by an AI attack in this update
  attackLog,         \* the last combat:attack request that was handled
  deadAtScan,        \* snapshot entities with Health <= 0 when Combat's scan began
  expLog,            \* the last PlayerComponent.addExperience call made directly
  \* ---- AIComponent fields the factory leaves at the constructor's values
  aiAggro, aiAttack, \* AIComponent.aggroRange / .attackRange, in units
  patrolPoints,      \* AIComponent.patrolPoints (positions of the line)
  currentPatrolIndex, \* AIComponent.currentPatrolIndex (counted from 0)
  \* ---- EventBus (part_007): callbacks per event, in the Sets' insertion order
  busListeners,      \* EventBus.listeners
  busOnce,           \* EventBus.onceListeners
  busStack,          \* the emit calls under way, innermost last: event, phase
                     \* and the rest of listenersCopy
  \* ---- observation of the bus
  busRegistered,     \* per event, the callbacks registered, in registration order
  busExpected,       \* per emit under way, busRegistered[event] when it began
  busCalled,         \* per emit under way, the callbacks it has called, in order
  onceLog,           \* observation, per callback since it was last registered
                     \* with once: how often emit called it, and whether
                     \* it was deleted from the once-listeners
  \* ---- ColliderComponent (circles)
  colRadius,         \* ColliderComponent.radius, in units
  isStatic, isTrigger,
  \* ---- observation of CollisionSystem
  collisionLog,      \* the collision events the last CollisionSystem.update
                     \* emitted, each with the positions its listeners saw
  \* ---- two colliders at their positions, handed to checkCollision
  narrowA, narrowB,
  narrowLog,         \* observation: what checkCollision returned for (A, B)
                     \* and for (B, A)
  \* ---- one MovementComponent on its own
  mvVelocity,        \* MovementComponent.velocity, a Vector2D
  mvMaxSpeed,        \* MovementComponent.maxSpeed
  mvCalled,          \* observation: the method called last
  typedListeners,    \* typed EventBus: the Set of handlers of the event type, in
                     \* insertion order; once marks a onceHandler wrapper
  typedStack,        \* typed EventBus: per emit under way its handlersCopy
                     \* still to call and the wrapper whose handler is running
  typedInvoked,      \* observation, per handler registered with once: how often
                     \* it was invoked
  available,         \* ObjectPool.available
  inUse,             \* ObjectPool.inUse, in insertion order
  maxSize,           \* ObjectPool.maxSize
  created,           \* the objects the factory has made are 1..created
  held,              \* observation: objects acquire returned and that were
                     \* since passed neither to release nor to releaseAll
  poolLog,           \* observation: the pool's method called last
  lifeLog,           \* observation: the two lifecycle requests a caller made
                     \* one after the other for one entity
  spawnLog,          \* observation: what the last call of Game.trySpawnEnemy
                     \* found and did
  deathLog           \* observation: the events the last turn of CombatSystem's
                     \* scan emitted, in order, each with the dying entity's
                     \* active flag as its listeners saw it

entityVars == <<nextId, kind, active, current, max, strength, defense,
                lastAttackTime, pos, rotation, vel, behaviorType, aiState, targetId,
                reward, level, experience, experienceToNext, kills, statPoints>>
worldVars == <<entities, entitiesToAdd, entitiesToRemove, systems, listening,
              outOfOrder>>
frameVars == <<pc, sysIdx, snapshot, queue, playerEntity>>
histVars == <<ran, diedCount, killedCount, frameDied, aiKilled, attackLog, deadAtScan>>
\* the observation variables but attackLog, which every step rewrites
keptHist == <<ran, diedCount, killedCount, frameDied, aiKilled, deadAtScan>>
aiConfig == <<aiAggro, aiAttack, patrolPoints>>
busVars == <<busListeners, busOnce, busStack, busRegistered, busExpected, busCalled,
             onceLog>>
colliderVars == <<colRadius, isStatic, isTrigger>>
\* what CollisionSystem leaves alone of the variables that the World, the
\* other systems and the clock never write, what AISystem leaves alone of them,
\* and all of them
narrowVars == <<narrowA, narrowB, narrowLog>>
movementVars == <<mvVelocity, mvMaxSpeed, mvCalled>>
aloneVars == <<narrowVars, movementVars>>
typedVars == <<typedListeners, typedStack, typedInvoked>>
poolVars == <<available, inUse, maxSize, created, held, poolLog>>
apartVars == <<typedVars, poolVars>>
restCombat == <<expLog, aiConfig, busVars, colliderVars, aloneVars, spawnLog,
                lifeLog, apartVars>>
restCollision == <<restCombat, deathLog>>
restAI == <<restCollision, collisionLog>>
restVars == <<restAI, currentPatrolIndex>>
vars == <<entityVars, worldVars, frameVars, now, histVars, restVars>>

\* ----------------------------------------------------------------- helpers
Range(s) == {s[i] : i \in 1..Len(s)}
MaxOf(a, b) == IF a >= b THEN a ELSE b
MinOf(a, b) == IF a <= b THEN a ELSE b
Abs(x) == IF x < 0 THEN -x ELSE x
Sign(x) == IF x > 0 THEN 1 ELSE IF x < 0 THEN -1 ELSE 0
Created == 1..(nextId - 1)
\* attackLog when the last step handled no combat:attack request
NoAttack == [attacker |-> NoEntity, target |-> NoEntity, time |-> 0, prevLast |-> 0,
             dealt |-> FALSE, raw |-> 0, damage |-> 0, before |-> 0, after |-> 0,
             byAI |-> FALSE]
\* expLog before any addExperience call
\* getCurrentPatrolPoint() of a component without patrol points
NoPoint == -1
NoExperience == [called |-> FALSE, player |-> NoEntity, amount |-> 0, returned |-> FALSE]

\* Components attached per kind: EntityFactory.createPlayer, createEnemy and
\* createFloor ("tile"); a "prop" is built by hand with a Transform and a Health
Components(k) ==
  CASE k = "player" -> {"Transform", "Health", "Combat", "Movement", "Sprite",
                        "Collider", "Player"}
    [] k = "enemy"  -> {"Transform", "Health", "Combat", "Movement", "Sprite",
                        "Collider", "AI", "Enemy"}
    [] k = "prop"   -> {"Transform", "Health"}
    [] k = "tile"   -> {"Transform", "Sprite"}
    \* entities built by hand, short of a component the factory would add
    [] k = "playerNoTransform" -> {"Health", "Combat", "Movement", "Sprite",
                                   "Collider", "Player"}
    [] k = "enemyNoCombat"     -> {"Transform", "Health", "Movement", "Sprite",
                                   "Collider", "AI", "Enemy"}
    [] k = "solid"  -> {"Transform", "Collider"}
    [] k = "bare"   -> {"Transform", "Collider"}
    [] OTHER        -> {}

\* Entity.hasComponent
hasComponent(e, c) == c \in Components(kind[e])
\* Entity.hasAllComponents
hasAllComponents(e, cs) == \A c \in cs : hasComponent(e, c)


\* ------------------------------------------------------------------ World
\* Map.set: a new key goes to the end, an existing key keeps its place
MapSet(m, e) == IF e \in Range(m) THEN m ELSE Append(m, e)
\* Map.delete
MapDelete(m, e) == SelectSeq(m, LAMBDA x : x # e)

RECURSIVE SetAll(_, _)
SetAll(m, q) == IF q = <<>> THEN m ELSE SetAll(MapSet(m, Head(q)), Tail(q))

RECURSIVE DeleteAll(_, _)
DeleteAll(m, q) == IF q = <<>> THEN m ELSE DeleteAll(MapDelete(m, Head(q)), Tail(q))

\* Faulty variant of the flush: the removals first, then the additions
processPendingRemovalsFirst(m, toAdd, toRemove) == SetAll(DeleteAll(m, toRemove), toAdd)

\* World.processPendingEntities: the additions first, then the removals
processPendingEntities(m, toAdd, toRemove) == DeleteAll(SetAll(m, toAdd), toRemove)

\* World.getEntity(id) # null
getEntity(id) == id \in Range(entities)
\* World.getEntities
getEntities == entities
\* World.getActiveEntities, over a given content of the Map
getActiveEntities(m) == SelectSeq(m, LAMBDA e : active[e])
\* World.queryEntities
queryEntities(cs) == SelectSeq(getActiveEntities(entities), LAMBDA e : hasAllComponents(e, cs))
\* World.findEntity (NoEntity for null)
findEntity(cs) == IF queryEntities(cs) = <<>> THEN NoEntity ELSE Head(queryEntities(cs))

\* Faulty variant of the priorities: every system keeps System's default
priorityUnset(s) == DefaultPriority

\* System.priority of the four systems
priority(s) ==
  CASE s = "Movement"  -> MovementPriority
    [] s = "Collision" -> CollisionPriority
    [] s = "AI"        -> AIPriority
    [] s = "Combat"    -> CombatPriority
    [] OTHER           -> DefaultPriority

\* Array.prototype.sort((a, b) => a.priority - b.priority): stable, ascending
RECURSIVE InsertSorted(_, _)
InsertSorted(sorted, s) ==
  IF sorted = <<>> THEN <<s>>
  ELSE IF priority(s) < priority(Head(sorted))
       THEN <<s>> \o sorted
       ELSE <<Head(sorted)>> \o InsertSorted(Tail(sorted), s)

RECURSIVE sortByPriority(_)
sortByPriority(ss) ==
  IF ss = <<>> THEN <<>>
  ELSE InsertSorted(sortByPriority(SubSeq(ss, 1, Len(ss) - 1)), ss[Len(ss)])

\* System.filterEntities
filterEntities(ents, required) ==
  SelectSeq(ents, LAMBDA e : active[e] /\ hasAllComponents(e, required))

\* requiredComponents of each system
requiredComponents(s) ==
  CASE s = "Movement"  -> {"Transform", "Movement"}
    [] s = "Collision" -> {"Transform", "Collider"}
    [] s = "AI"        -> {"Transform", "Movement", "AI"}
    [] s = "Combat"    -> {"Transform", "Health", "Combat"}
    [] OTHER           -> {}

\* --------------------------------------------------- entity construction
\* new Entity() followed by the factory's addComponent calls, then
\* World.createEntity / World.addEntity: the entity is queued, not stored
addNewEntity(k, p, b, r) ==
  /\ LET e == nextId IN
     /\ nextId' = nextId + 1
     /\ kind' = [kind EXCEPT ![e] = k]
     /\ pos' = [pos EXCEPT ![e] = p]
     /\ max' = [max EXCEPT ![e] =
           CASE k = "player" -> PlayerHealth [] k = "enemy" -> EnemyHealth
             [] k = "prop" -> PropHealth [] OTHER -> 0]
     /\ current' = [current EXCEPT ![e] = max'[e]]
     /\ strength' = [strength EXCEPT ![e] =
           CASE k = "player" -> PlayerStrength [] k = "enemy" -> EnemyStrength
             [] OTHER -> 0]
     /\ defense' = [defense EXCEPT ![e] =
           CASE k = "player" -> PlayerDefense [] k = "enemy" -> EnemyDefense
             [] OTHER -> 0]
     /\ behaviorType' = [behaviorType EXCEPT ![e] = IF k = "enemy" THEN b ELSE "none"]
     /\ aiState' = [aiState EXCEPT ![e] = IF k = "enemy" THEN "idle" ELSE "none"]
     /\ reward' = [reward EXCEPT ![e] = IF k = "enemy" THEN r ELSE 0]
     /\ level' = [level EXCEPT ![e] = IF k = "player" THEN 1 ELSE 0]
     /\ experienceToNext' = [experienceToNext EXCEPT ![e] =
           IF k = "player" THEN InitialExperienceToNext ELSE 0]
     /\ entitiesToAdd' = Append(entitiesToAdd, e)
  /\ UNCHANGED <<active, lastAttackTime, rotation, vel, targetId, experience,
                 kills, statPoints>>
  /\ UNCHANGED <<entities, entitiesToRemove, systems, listening, outOfOrder>>
  /\ UNCHANGED <<frameVars, now, keptHist>>
  /\ attackLog' = NoAttack

createEntity(k, p, b, r) ==
  /\ nextId <= MaxEntities
  /\ k = "player" => \A x \in Created : kind[x] # "player"
  /\ addNewEntity(k, p, b, r)
  /\ UNCHANGED restVars

\* The inputs of createEntity: only enemies have a behaviour and a reward
CreateEntity ==
  \E k \in Kinds :
   \E p \in (IF k = "player" THEN {PlayerSpawn}
              ELSE IF k = "enemy" THEN Positions ELSE {0, ArenaMax}) :
    \E b \in (IF k = "enemy" THEN Behaviors ELSE {"none"}) :
      \E r \in (IF k = "enemy" THEN ExpRewards ELSE {0}) :
        createEntity(k, p, b, r)

\* Faulty variant of Entity.destroy: the flag is left as it is
destroyForgotten(e) == active' = active

\* Entity.destroy
destroy(e) == active' = [active EXCEPT ![e] = FALSE]

\* Faulty variant of World.addEntity: the entity is stored at once
addEntityStored(e) ==
  /\ e \in Created
  /\ e \notin Range(entitiesToAdd)
  /\ entities' = MapSet(entities, e)
  /\ UNCHANGED <<entitiesToAdd, entitiesToRemove, systems, listening, outOfOrder>>
  /\ UNCHANGED <<entityVars, frameVars, now, keptHist>>
  /\ attackLog' = NoAttack
  /\ UNCHANGED restVars

\* World.addEntity with an entity object that already exists
addEntity(e) ==
  /\ e \in Created
  /\ e \notin Range(entitiesToAdd)
  /\ entitiesToAdd' = Append(entitiesToAdd, e)
  /\ UNCHANGED <<entities, entitiesToRemove, systems, listening, outOfOrder>>
  /\ UNCHANGED <<entityVars, frameVars, now, keptHist>>
  /\ attackLog' = NoAttack
  /\ UNCHANGED restVars

AddEntity == \E e \in Ids : addEntity(e)

\* createEntity for the World-level behaviours: an aggressive enemy
CreateWorldEntity == createEntity("enemy", 0, "aggressive", 50)

\* Faulty variant of World.removeEntity: the entity is deleted at once
removeEntityAtOnce(id) ==
  /\ id \in Created
  /\ id \notin Range(entitiesToRemove)
  /\ entities' = MapDelete(entities, id)
  /\ UNCHANGED <<entitiesToAdd, entitiesToRemove, systems, listening, outOfOrder>>
  /\ UNCHANGED <<entityVars, frameVars, now, keptHist>>
  /\ attackLog' = NoAttack
  /\ UNCHANGED restVars

\* World.removeEntity
removeEntity(id) ==
  /\ id \in Created
  /\ id \notin Range(entitiesToRemove)
  /\ entitiesToRemove' = Append(entitiesToRemove, id)
  /\ UNCHANGED <<entities, entitiesToAdd, systems, listening, outOfOrder>>
  /\ UNCHANGED <<entityVars, frameVars, now, keptHist>>
  /\ attackLog' = NoAttack
  /\ UNCHANGED restVars

RemoveEntity == \E id \in Ids : removeEntity(id)

\* World.destroyEntity: only a stored entity is marked and queued
destroyEntity(id) ==
  /\ id \in Created
  /\ id \notin Range(entitiesToRemove)
  /\ IF getEntity(id)
     THEN /\ destroy(id)
          /\ entitiesToRemove' = Append(entitiesToRemove, id)
     ELSE UNCHANGED <<active, entitiesToRemove>>
  /\ UNCHANGED <<nextId, kind, current, max, strength, defense, lastAttackTime,
                 pos, rotation, vel, behaviorType, aiState, targetId, reward, level,
                 experience, experienceToNext, kills, statPoints>>
  /\ UNCHANGED <<entities, entitiesToAdd, systems, listening, outOfOrder>>
  /\ UNCHANGED <<frameVars, now, keptHist>>
  /\ attackLog' = NoAttack
  /\ UNCHANGED restVars

DestroyEntity == \E id \in Ids : destroyEntity(id)

\* new XSystem(eventBus) and World.addSystem, as in Game.setupSystems;
\* CombatSystem's constructor registers the combat:attack listener
addSystem(s) ==
  /\ pc = "idle"
  /\ s \notin Range(systems)
  /\ systems' = sortByPriority(Append(systems, s))
  /\ listening' = (listening \/ s = "Combat")
  /\ outOfOrder' = (outOfOrder \/ \E x \in Range(systems) : priority(x) > priority(s))
  /\ UNCHANGED <<entities, entitiesToAdd, entitiesToRemove>>
  /\ UNCHANGED <<entityVars, frameVars, now, keptHist>>
  /\ attackLog' = NoAttack
  /\ UNCHANGED restVars

AddSystem == \E s \in SystemNames : addSystem(s)


\* ------------------------------------------------------------- components
\* CombatComponent.attackCooldown / attackRange, AIComponent ranges,
\* MovementComponent.maxSpeed (= speed) as the factory sets them
attackCooldown(e) == IF kind[e] = "player" THEN PlayerCooldown ELSE EnemyCooldown
attackRange(e) == IF kind[e] = "player" THEN PlayerAttackRange ELSE EnemyAttackRange
aggroRange(e) == aiAggro[e]
aiAttackRange(e) == aiAttack[e]
maxSpeed(e) == IF kind[e] = "player" THEN PlayerSpeed ELSE EnemySpeed

\* Faulty variant of canAttack: the time of the last attack is not subtracted
canAttackSinceStart(last, cooldown, t) == t >= cooldown

\* CombatComponent.canAttack for a last-attack time, a cooldown and Date.now()
canAttack(last, cooldown, t) == t - last >= cooldown
\* CombatComponent.calculateDamage: strength + floor(random() * 5)
calculateDamage(str, variance) == str + variance
\* CombatComponent.calculateDamageReceived
calculateDamageReceived(incoming, def) == MaxOf(1, incoming - def)
\* CombatSystem.handleAttack, lines 286-290: the damage handed to takeDamage
actualDamage(raw, targetHasCombat, def) ==
  IF targetHasCombat THEN calculateDamageReceived(raw, def) ELSE raw

\* HealthComponent.takeDamage (invulnerable is never set by the program)
takeDamage(cur, amount) == MaxOf(0, cur - amount)
\* HealthComponent.heal
heal(cur, mx, amount) == MinOf(mx, cur + amount)
\* HealthComponent.isDead
isDead(cur) == cur <= 0

\* Vector2D.limit on a line
limit(v, maxLength) == IF Abs(v) > maxLength THEN Sign(v) * maxLength ELSE v
\* MovementComponent.moveInDirection: addVelocity(normalize(dir) * acceleration * dt)
moveInDirection(v, dir, maxLen) == limit(v + Sign(dir) * MoveAcceleration, maxLen)
\* MovementComponent.applyFriction: velocity * friction ^ dt, zero when very slow
applyFriction(v) == Sign(v) * ((Abs(v) * 9) \div 10)

\* ---- Vector2D in the plane, over the numbers of the language: the integers
\* (the doubles that every operation below yields exactly), the two
\* infinities and NaN
Num(n) == [k |-> "num", v |-> n]
Infinity == [k |-> "inf", v |-> 1]
NaN == [k |-> "nan", v |-> 0]
\* a + b
plus(a, b) ==
  IF a.k = "nan" \/ b.k = "nan" THEN NaN
  ELSE IF a.k = "inf" /\ b.k = "inf" THEN (IF a.v = b.v THEN a ELSE NaN)
  ELSE IF a.k = "inf" THEN a
  ELSE IF b.k = "inf" THEN b
  ELSE Num(a.v + b.v)
\* a * b
times(a, b) ==
  IF a.k = "nan" \/ b.k = "nan" THEN NaN
  ELSE IF a.k = "inf" \/ b.k = "inf"
       THEN (IF a.v = 0 \/ b.v = 0 THEN NaN
             ELSE [k |-> "inf", v |-> Sign(a.v) * Sign(b.v)])
  ELSE Num(a.v * b.v)
\* a / b for b # 0, where the quotient of two integers is an integer
over(a, b) ==
  IF a.k = "nan" \/ b.k = "nan" THEN NaN
  ELSE IF a.k = "inf" /\ b.k = "inf" THEN NaN
  ELSE IF a.k = "inf" THEN [k |-> "inf", v |-> a.v * Sign(b.v)]
  ELSE IF b.k = "inf" THEN Num(0)
  ELSE Num(Sign(a.v) * Sign(b.v) * (Abs(a.v) \div Abs(b.v)))
\* Math.sqrt(a) for a >= 0, where the root of an integer is an integer
sqrt(a) ==
  IF a.k = "num" THEN Num(CHOOSE r \in 0..a.v : r * r <= a.v /\ (r + 1) * (r + 1) > a.v)
  ELSE a
\* a > b and a <= b: both false when either side is NaN
greater(a, b) ==
  /\ a.k # "nan" /\ b.k # "nan"
  /\ IF a.k = "inf" THEN a.v = 1 /\ ~(b.k = "inf" /\ b.v = 1)
     ELSE IF b.k = "inf" THEN b.v = -1
     ELSE a.v > b.v
atMost(a, b) == a.k # "nan" /\ b.k # "nan" /\ ~greater(a, b)

\* Vector2D.zero, add, multiply, divide, length, normalize, setLength
zero == [x |-> Num(0), y |-> Num(0)]
add(v, other) == [x |-> plus(v.x, other.x), y |-> plus(v.y, other.y)]
multiply(v, scalar) == [x |-> times(v.x, scalar), y |-> times(v.y, scalar)]
divide(v, scalar) ==
  IF scalar = Num(0) THEN v ELSE [x |-> over(v.x, scalar), y |-> over(v.y, scalar)]
length(v) == sqrt(plus(times(v.x, v.x), times(v.y, v.y)))
normalize(v) == IF length(v) = Num(0) THEN zero ELSE divide(v, length(v))
setLength(v, len) == multiply(normalize(v), len)

\* Vector2D.limit
limitVector(v, maxLength) ==
  IF greater(length(v), maxLength) THEN setLength(v, maxLength) ELSE v

\* The vectors on which limit(maxLength) computes in whole numbers: the sum of
\* the squares is a square and, where the vector is cut, its length divides
\* both components
Exact(v, maxLength) ==
  LET sq == plus(times(v.x, v.x), times(v.y, v.y))
      len == length(v)
  IN sq.k = "num" =>
       /\ len.v * len.v = sq.v
       /\ (len.v > 0 /\ greater(len, maxLength)) =>
            (v.x.v % len.v = 0 /\ v.y.v % len.v = 0)

\* the arguments tried: vectors along the axes and along (3, 4), a component
\* that is infinite or not a number; acceleration * deltaTime; maxSpeed
VectorInputs ==
  {[x |-> Num(a), y |-> Num(b)] : a \in {-8, -5, -4, 0, 3, 5, 6}, b \in {-6, -3, 0, 4, 8}}
  \cup {[x |-> Infinity, y |-> Num(0)], [x |-> Num(0), y |-> NaN]}
Pushes == {Num(3), Num(16)}
MaxSpeeds == {Num(5), Num(10)}
\* the arena keeps positions inside Positions
clampPos(p) == MaxOf(0, MinOf(ArenaMax, p))

\* Faulty variant of addExperience: levelling up discards the remainder
addExperienceDiscarding(pl, amount) ==
  LET e1 == pl.experience + amount IN
  IF e1 >= pl.experienceToNext
  THEN [level |-> pl.level + 1,
        experience |-> 0,
        experienceToNext |-> (pl.experienceToNext * 3) \div 2,
        statPoints |-> pl.statPoints + LevelUpStatPoints,
        leveledUp |-> TRUE]
  ELSE [level |-> pl.level, experience |-> e1,
        experienceToNext |-> pl.experienceToNext,
        statPoints |-> pl.statPoints, leveledUp |-> FALSE]

\* PlayerComponent.addExperience / levelUp on a record of the player's fields
addExperience(pl, amount) ==
  LET e1 == pl.experience + amount IN
  IF e1 >= pl.experienceToNext
  THEN [level |-> pl.level + 1,
        experience |-> e1 - pl.experienceToNext,
        experienceToNext |-> (pl.experienceToNext * 3) \div 2,
        statPoints |-> pl.statPoints + LevelUpStatPoints,
        leveledUp |-> TRUE]
  ELSE [level |-> pl.level, experience |-> e1,
        experienceToNext |-> pl.experienceToNext,
        statPoints |-> pl.statPoints, leveledUp |-> FALSE]

\* AISystem.findPlayer / CombatSystem.findPlayer: first entity of the list
\* that has a Player component, active or not
findPlayer(ents) ==
  LET ps == SelectSeq(ents, LAMBDA e : hasComponent(e, "Player"))
  IN IF ps = <<>> THEN NoEntity ELSE Head(ps)

\* -------------------------------------------------------------- handleAttack
\* EventBus.emit('combat:attack', {attacker, target}) with CombatSystem's
\* listener: CombatSystem.handleAttack runs inside the emit.  Fixes current',
\* lastAttackTime', attackLog' and aiKilled'.
handleAttack(a, t, variance, byAI) ==
  LET honoured == /\ listening
                  /\ hasComponent(a, "Combat")
                  /\ hasComponent(t, "Health")
                  /\ canAttack(lastAttackTime[a], attackCooldown(a), now)
      raw == calculateDamage(strength[a], variance)
      dmg == actualDamage(raw, hasComponent(t, "Combat"), defense[t])
      after == takeDamage(current[t], dmg)
  IN IF honoured
     THEN /\ current' = [current EXCEPT ![t] = after]
          /\ lastAttackTime' = [lastAttackTime EXCEPT ![a] = now]
          /\ attackLog' = [attacker |-> a, target |-> t, time |-> now,
                           prevLast |-> lastAttackTime[a], dealt |-> TRUE,
                           raw |-> raw, damage |-> dmg, before |-> current[t],
                           after |-> after, byAI |-> byAI]
          /\ aiKilled' = IF byAI /\ pc # "idle" /\ after <= 0 /\ current[t] > 0
                         THEN aiKilled \cup {t} ELSE aiKilled
     ELSE /\ UNCHANGED <<current, lastAttackTime, aiKilled>>
          /\ attackLog' = [NoAttack EXCEPT !.attacker = a, !.target = t,
                                           !.time = now,
                                           !.prevLast = lastAttackTime[a],
                                           !.before = current[t],
                                           !.after = current[t], !.byAI = byAI]


\* ------------------------------------------------------------------ AISystem
\* Each behaviour yields the AI state, target, velocity and rotation of entity
\* e after this frame and whether an attack request is emitted; d is the
\* distance to the player p.
\* Vector2D.distanceTo between two positions of the line, in units
distanceTo(a, b) == Abs(a - b) * TileSize
\* TransformComponent.lookAt / Vector2D.angle on a line: 0 or 180 degrees
angleOf(dir) == IF dir < 0 THEN 180 ELSE 0

\* AISystem.moveTowards
moveTowards(e, targetPos, st, tg) ==
  [state |-> st, target |-> tg,
   vel |-> moveInDirection(vel[e], targetPos - pos[e], maxSpeed(e)),
   rotation |-> angleOf(targetPos - pos[e]), attack |-> FALSE,
   patrolIndex |-> currentPatrolIndex[e]]

\* AISystem.moveAway
moveAway(e, targetPos, st, tg) ==
  [state |-> st, target |-> tg,
   vel |-> moveInDirection(vel[e], pos[e] - targetPos, maxSpeed(e)),
   rotation |-> angleOf(Sign(pos[e] - targetPos)), attack |-> FALSE,
   patrolIndex |-> currentPatrolIndex[e]]

\* ai.setState(s); movement.stop()
stopIn(e, st, tg, atk) ==
  [state |-> st, target |-> tg, vel |-> 0, rotation |-> rotation[e], attack |-> atk,
   patrolIndex |-> currentPatrolIndex[e]]

\* Faulty variant of updateAggressiveBehavior: out of range, the target is kept
updateAggressiveKeepingTarget(e, p, d) ==
  IF d <= aggroRange(e)
  THEN IF d <= aiAttackRange(e)
       THEN stopIn(e, "attack", p,
                   hasComponent(e, "Combat")
                     /\ canAttack(lastAttackTime[e], attackCooldown(e), now))
       ELSE moveTowards(e, pos[p], "chase", p)
  ELSE stopIn(e, "idle", targetId[e], FALSE)

\* AISystem.updateAggressiveBehavior
updateAggressiveBehavior(e, p, d) ==
  IF d <= aggroRange(e)
  THEN IF d <= aiAttackRange(e)
       THEN stopIn(e, "attack", p,
                   hasComponent(e, "Combat")
                     /\ canAttack(lastAttackTime[e], attackCooldown(e), now))
       ELSE moveTowards(e, pos[p], "chase", p)
  ELSE stopIn(e, "idle", NoEntity, FALSE)

\* Faulty variant of updateRangedBehavior: optimalRange = attackRange
updateRangedAtFullRange(e, p, d) ==
  IF d <= aggroRange(e)
  THEN IF d < aiAttackRange(e)
       THEN moveAway(e, pos[p], "flee", p)
       ELSE IF d > aiAttackRange(e)
            THEN moveTowards(e, pos[p], "chase", p)
            ELSE stopIn(e, "attack", p,
                        hasComponent(e, "Combat")
                          /\ canAttack(lastAttackTime[e], attackCooldown(e), now))
  ELSE stopIn(e, "idle", NoEntity, FALSE)

\* AISystem.updateRangedBehavior: optimalRange = attackRange * 0.8
updateRangedBehavior(e, p, d) ==
  IF d <= aggroRange(e)
  THEN IF d * 10 < aiAttackRange(e) * 8
       THEN moveAway(e, pos[p], "flee", p)
       ELSE IF d > aiAttackRange(e)
            THEN moveTowards(e, pos[p], "chase", p)
            ELSE stopIn(e, "attack", p,
                        hasComponent(e, "Combat")
                          /\ canAttack(lastAttackTime[e], attackCooldown(e), now))
  ELSE stopIn(e, "idle", NoEntity, FALSE)

\* AIComponent.getCurrentPatrolPoint (NoPoint for null)
getCurrentPatrolPoint(e) ==
  IF Len(patrolPoints[e]) = 0 THEN NoPoint
  ELSE patrolPoints[e][currentPatrolIndex[e] + 1]

\* Faulty variant of nextPatrolPoint: no wrap after the last point
nextPatrolPointUnwrapped(e) ==
  IF Len(patrolPoints[e]) > 0
  THEN currentPatrolIndex[e] + 1
  ELSE currentPatrolIndex[e]

\* AIComponent.nextPatrolPoint: the index after the call
nextPatrolPoint(e) ==
  IF Len(patrolPoints[e]) > 0
  THEN (currentPatrolIndex[e] + 1) % Len(patrolPoints[e])
  ELSE currentPatrolIndex[e]

\* AISystem.updatePatrolBehavior
updatePatrolBehavior(e, p, d) ==
  IF d <= aggroRange(e)
  THEN updateAggressiveBehavior(e, p, d)
  ELSE LET patrolPoint == getCurrentPatrolPoint(e) IN
       IF patrolPoint # NoPoint
       THEN IF distanceTo(pos[e], patrolPoint) < ArrivalRadius
            THEN [state |-> "patrol", target |-> targetId[e], vel |-> vel[e],
                  rotation |-> rotation[e], attack |-> FALSE,
                  patrolIndex |-> nextPatrolPoint(e)]
            ELSE moveTowards(e, patrolPoint, "patrol", targetId[e])
       ELSE stopIn(e, "idle", targetId[e], FALSE)

\* AISystem.updateFleeBehavior: fleeRange = aggroRange * 1.5
updateFleeBehavior(e, p, d) ==
  IF d * 2 < aggroRange(e) * 3
  THEN moveAway(e, pos[p], "flee", targetId[e])
  ELSE stopIn(e, "idle", targetId[e], FALSE)

\* Faulty variant of processEntity: the dead state is not looked at
processEntityOfTheDead(e, p) ==
  IF p = NoEntity
  THEN stopIn(e, "idle", targetId[e], FALSE)
  ELSE LET d == distanceTo(pos[e], pos[p]) IN
       CASE behaviorType[e] = "aggressive" -> updateAggressiveBehavior(e, p, d)
         [] behaviorType[e] = "ranged"     -> updateRangedBehavior(e, p, d)
         [] behaviorType[e] = "patrol"     -> updatePatrolBehavior(e, p, d)
         [] behaviorType[e] = "flee"       -> updateFleeBehavior(e, p, d)
         [] OTHER                          -> stopIn(e, "idle", targetId[e], FALSE)

\* AISystem.processEntity
processEntity(e, p) ==
  IF aiState[e] = "dead"
  THEN [state |-> aiState[e], target |-> targetId[e], vel |-> vel[e],
        rotation |-> rotation[e], attack |-> FALSE,
        patrolIndex |-> currentPatrolIndex[e]]
  ELSE IF p = NoEntity
  THEN stopIn(e, "idle", targetId[e], FALSE)
  ELSE LET d == distanceTo(pos[e], pos[p]) IN
       CASE behaviorType[e] = "aggressive" -> updateAggressiveBehavior(e, p, d)
         [] behaviorType[e] = "ranged"     -> updateRangedBehavior(e, p, d)
         [] behaviorType[e] = "patrol"     -> updatePatrolBehavior(e, p, d)
         [] behaviorType[e] = "flee"       -> updateFleeBehavior(e, p, d)
         [] OTHER                          -> stopIn(e, "idle", targetId[e], FALSE)

\* AISystem.processEntity, lines 57-60: getComponent(TransformComponent)!
\* of the player is undefined when the player has no Transform, and reading
\* its position raises a TypeError
processEntityThrows(e, p) ==
  /\ aiState[e] # "dead"
  /\ p # NoEntity
  /\ ~hasComponent(p, "Transform")

\* ------------------------------------------------------------ World.update
\* for (const system of this.systems): the loop moves on to the next system
\* when the running pass has no entity left
advance(rest) ==
  IF rest = <<>>
  THEN pc' = "systems" /\ sysIdx' = sysIdx + 1
  ELSE pc' = pc /\ sysIdx' = sysIdx

\* World.update, lines 170-173: first flush, then the snapshot
UpdateBegin ==
  /\ pc = "idle"
  /\ Range(systems) = SystemNames
  /\ entities' = processPendingEntities(entities, entitiesToAdd, entitiesToRemove)
  /\ entitiesToAdd' = <<>>
  /\ entitiesToRemove' = <<>>
  /\ snapshot' = getActiveEntities(entities')
  /\ pc' = "systems"
  /\ sysIdx' = 1
  /\ queue' = <<>>
  /\ ran' = <<>>
  /\ frameDied' = {}
  /\ aiKilled' = {}
  /\ deadAtScan' = {}
  /\ attackLog' = NoAttack
  /\ UNCHANGED <<systems, listening, outOfOrder, playerEntity, now, diedCount, killedCount>>
  /\ UNCHANGED entityVars
  /\ UNCHANGED restVars

\* MovementSystem.update (IteratingSystem.update + processEntity)
MovementUpdate ==
  /\ pc = "systems"
  /\ sysIdx <= Len(systems)
  /\ systems[sysIdx] = "Movement"
  /\ LET moving == Range(filterEntities(snapshot, requiredComponents("Movement"))) IN
     /\ pos' = [e \in Ids |-> IF e \in moving /\ vel[e] # 0
                              THEN clampPos(pos[e] + vel[e]) ELSE pos[e]]
     /\ vel' = [e \in Ids |-> IF e \in moving /\ vel[e] # 0
                              THEN applyFriction(vel[e]) ELSE vel[e]]
  /\ sysIdx' = sysIdx + 1
  /\ ran' = Append(ran, "Movement")
  /\ UNCHANGED <<nextId, kind, active, current, max, strength, defense,
                 lastAttackTime, rotation, behaviorType, aiState, targetId, reward,
                 level, experience, experienceToNext, kills, statPoints>>
  /\ UNCHANGED <<worldVars, pc, snapshot, queue, playerEntity, now>>
  /\ attackLog' = NoAttack
  /\ UNCHANGED <<diedCount, killedCount, frameDied, aiKilled, deadAtScan>>
  /\ UNCHANGED restVars

\* ---- CollisionSystem
\* ColliderComponent.layer as the factories set it; the constructor's NONE
\* for a collider no factory built
layer(e) ==
  CASE kind[e] = "player" -> "PLAYER"
    [] kind[e] = "enemy"  -> "ENEMY"
    [] kind[e] = "solid"  -> "WALL"
    [] OTHER              -> "NONE"

\* ColliderComponent.mask as the factories set it; the constructor's ALL otherwise
mask(e) ==
  CASE kind[e] = "player" -> {"ENEMY", "WALL", "ITEM"}
    [] kind[e] = "enemy"  -> {"PLAYER", "WALL", "ENEMY"}
    [] OTHER              -> Layers

\* ColliderComponent.canCollideWith: (mask & layer) !== 0
canCollideWith(e, l) == l \in mask(e)

\* SpatialGrid.getCellKey, on the line
getCellKey(x) == (x * TileSize) \div CellSize

\* SpatialGrid.getNearby: the cells around the entity's present cell, each
\* holding, in insertion order, the entities inserted there when the grid was built
getNearby(a, p, inserted, collidables) ==
  LET cell(dx) == SelectSeq(collidables,
                    LAMBDA e : e # a /\ getCellKey(inserted[e]) = getCellKey(p[a]) + dx)
  IN cell(-1) \o cell(0) \o cell(1)

\* CollisionSystem.circleVsCircle: distSquared < radiusSum * radiusSum
circleVsCircle(posA, radiusA, posB, radiusB) ==
  LET dx == posB.x - posA.x
      dy == posB.y - posA.y
  IN dx * dx + dy * dy < (radiusA + radiusB) * (radiusA + radiusB)

\* CollisionSystem.aabbVsAabb (widths and heights are even numbers of units)
aabbVsAabb(posA, widthA, heightA, posB, widthB, heightB) ==
  /\ posA.x - widthA \div 2 < posB.x + widthB \div 2
  /\ posA.x + widthA \div 2 > posB.x - widthB \div 2
  /\ posA.y - heightA \div 2 < posB.y + heightB \div 2
  /\ posA.y + heightA \div 2 > posB.y - heightB \div 2

\* CollisionSystem.circleVsAabb: the point of the rectangle closest to the
\* circle's centre is nearer than the radius
circleVsAabb(circlePos, radius, rectPos, width, height) ==
  LET closestX == MaxOf(rectPos.x - width \div 2,
                        MinOf(circlePos.x, rectPos.x + width \div 2))
      closestY == MaxOf(rectPos.y - height \div 2,
                        MinOf(circlePos.y, rectPos.y + height \div 2))
      dx == circlePos.x - closestX
      dy == circlePos.y - closestY
  IN dx * dx + dy * dy < radius * radius

\* Faulty variant of checkColliders: only the first collider's mask is asked
checkCollidersOneWay(A, B) ==
  LET posA == [x |-> A.x + A.offsetX, y |-> A.y + A.offsetY]
      posB == [x |-> B.x + B.offsetX, y |-> B.y + B.offsetY]
  IN IF B.layer \notin A.mask THEN FALSE
     ELSE IF A.shape = "circle" /\ B.shape = "circle"
          THEN circleVsCircle(posA, A.radius, posB, B.radius)
     ELSE IF A.shape = "rectangle" /\ B.shape = "rectangle"
          THEN aabbVsAabb(posA, A.width, A.height, posB, B.width, B.height)
     ELSE IF A.shape = "circle"
          THEN circleVsAabb(posA, A.radius, posB, B.width, B.height)
          ELSE circleVsAabb(posB, B.radius, posA, A.width, A.height)

\* CollisionSystem.checkCollision, lines 127-186, on two colliders together
\* with the positions of their entities
checkColliders(A, B) ==
  LET posA == [x |-> A.x + A.offsetX, y |-> A.y + A.offsetY]
      posB == [x |-> B.x + B.offsetX, y |-> B.y + B.offsetY]
  IN IF B.layer \notin A.mask THEN FALSE
     ELSE IF A.layer \notin B.mask THEN FALSE
     ELSE IF A.shape = "circle" /\ B.shape = "circle"
          THEN circleVsCircle(posA, A.radius, posB, B.radius)
     ELSE IF A.shape = "rectangle" /\ B.shape = "rectangle"
          THEN aabbVsAabb(posA, A.width, A.height, posB, B.width, B.height)
     ELSE IF A.shape = "circle"
          THEN circleVsAabb(posA, A.radius, posB, B.width, B.height)
          ELSE circleVsAabb(posB, B.radius, posA, A.width, A.height)

\* the entity's collider, a circle without offset, and its place on the line
colliderAt(e, p) ==
  [shape |-> "circle", x |-> p[e] * TileSize, y |-> 0,
   radius |-> colRadius[e], width |-> 2 * colRadius[e], height |-> 2 * colRadius[e],
   offsetX |-> 0, offsetY |-> 0, layer |-> layer(e), mask |-> mask(e)]

\* CollisionSystem.checkCollision on two entities
checkCollision(a, b, p) == checkColliders(colliderAt(a, p), colliderAt(b, p))

\* checkCollision is called on the pair, in both orders
CheckBothOrders ==
  /\ narrowA # NoCollider
  /\ narrowLog = NoCheck
  /\ narrowLog' = [called |-> TRUE, ab |-> checkColliders(narrowA, narrowB),
                   ba |-> checkColliders(narrowB, narrowA)]
  /\ UNCHANGED <<narrowA, narrowB>>
  /\ UNCHANGED <<entityVars, worldVars, frameVars, now, histVars>>
  /\ UNCHANGED <<expLog, aiConfig, busVars, colliderVars, collisionLog,
                 currentPatrolIndex, deathLog, movementVars, spawnLog, lifeLog,
                 apartVars>>

\* a length in units as a number of tiles
toTiles(u) == u \div TileSize

\* Faulty variant of resolveCollision: a static collider is pushed like any other
resolveCollisionMovingStatic(a, b, p) ==
  LET delta == p[b] - p[a]
      distance == Abs(delta) * TileSize
      overlap == (colRadius[a] + colRadius[b]) - distance
      separation == (IF delta > 0 THEN 1 ELSE -1) * overlap
  IN IF distance = 0 \/ overlap <= 0 THEN p
     ELSE [p EXCEPT ![a] = @ - toTiles(separation \div 2),
                    ![b] = @ + toTiles(separation \div 2)]

\* Faulty variant of resolveCollision: two dynamic colliders each move by the
\* whole overlap
resolveCollisionUnsplit(a, b, p) ==
  LET delta == p[b] - p[a]
      distance == Abs(delta) * TileSize
      overlap == (colRadius[a] + colRadius[b]) - distance
      separation == (IF delta > 0 THEN 1 ELSE -1) * overlap
  IN IF isStatic[a] /\ isStatic[b] THEN p
     ELSE IF distance = 0 THEN p
     ELSE IF overlap <= 0 THEN p
     ELSE IF ~isStatic[a] /\ ~isStatic[b]
          THEN [p EXCEPT ![a] = @ - toTiles(separation),
                         ![b] = @ + toTiles(separation)]
     ELSE IF isStatic[a]
          THEN [p EXCEPT ![b] = @ + toTiles(separation)]
          ELSE [p EXCEPT ![a] = @ - toTiles(separation)]

\* CollisionSystem.resolveCollision: the positions after the pair was separated
resolveCollision(a, b, p) ==
  LET delta == p[b] - p[a]
      distance == Abs(delta) * TileSize
      overlap == (colRadius[a] + colRadius[b]) - distance
      \* delta.normalize().multiply(overlap)
      separation == (IF delta > 0 THEN 1 ELSE -1) * overlap
  IN IF isStatic[a] /\ isStatic[b] THEN p
     ELSE IF distance = 0 THEN p
     ELSE IF overlap <= 0 THEN p
     ELSE IF ~isStatic[a] /\ ~isStatic[b]
          THEN [p EXCEPT ![a] = @ - toTiles(separation \div 2),
                         ![b] = @ + toTiles(separation \div 2)]
     ELSE IF isStatic[a]
          THEN [p EXCEPT ![b] = @ + toTiles(separation)]
          ELSE [p EXCEPT ![a] = @ - toTiles(separation)]

\* the COLLISION event data, and the positions a listener reads on receiving it
CollisionEvent(a, b, p) ==
  [entityA |-> a, entityB |-> b,
   position |-> ((p[a] + p[b]) * TileSize) \div 2,
   seenA |-> p[a], seenB |-> p[b]]

\* Faulty variant of handleCollision: the pair is separated before the event
handleCollisionResolvingFirst(a, b, st) ==
  LET resolved == IF ~isTrigger[a] /\ ~isTrigger[b]
                  THEN resolveCollision(a, b, st.pos) ELSE st.pos
  IN [pos |-> resolved,
      events |-> Append(st.events, CollisionEvent(a, b, resolved))]

\* CollisionSystem.handleCollision: the event, then the resolution unless a
\* collider is a trigger
handleCollision(a, b, st) ==
  [pos |-> IF ~isTrigger[a] /\ ~isTrigger[b]
           THEN resolveCollision(a, b, st.pos) ELSE st.pos,
   events |-> Append(st.events, CollisionEvent(a, b, st.pos))]

\* CollisionSystem.update, the inner loop over nearby
RECURSIVE checkNearby(_, _, _)
checkNearby(a, nearby, st) ==
  IF nearby = <<>> THEN st
  ELSE checkNearby(a, Tail(nearby),
                   IF checkCollision(a, Head(nearby), st.pos)
                   THEN handleCollision(a, Head(nearby), st) ELSE st)

\* CollisionSystem.update, the outer loop over collidables
RECURSIVE checkCollisions(_, _, _, _)
checkCollisions(rest, inserted, collidables, st) ==
  IF rest = <<>> THEN st
  ELSE checkCollisions(Tail(rest), inserted, collidables,
                       checkNearby(Head(rest),
                                   getNearby(Head(rest), st.pos, inserted, collidables),
                                   st))

\* CollisionSystem.update: the grid is rebuilt, then every collidable is
\* checked against the entities near it
CollisionUpdate ==
  /\ pc = "systems"
  /\ sysIdx <= Len(systems)
  /\ systems[sysIdx] = "Collision"
  /\ LET collidables == filterEntities(snapshot, requiredComponents("Collision"))
         done == checkCollisions(collidables, pos, collidables,
                                 [pos |-> pos, events |-> <<>>])
     IN /\ pos' = done.pos
        /\ collisionLog' = done.events
  /\ sysIdx' = sysIdx + 1
  /\ ran' = Append(ran, "Collision")
  /\ UNCHANGED <<nextId, kind, active, current, max, strength, defense,
                 lastAttackTime, rotation, vel, behaviorType, aiState, targetId,
                 reward, level, experience, experienceToNext, kills, statPoints>>
  /\ UNCHANGED <<worldVars, pc, snapshot, queue, playerEntity, now>>
  /\ attackLog' = NoAttack
  /\ UNCHANGED <<diedCount, killedCount, frameDied, aiKilled, deadAtScan>>
  /\ UNCHANGED <<restCollision, currentPatrolIndex>>

\* AISystem.update, lines 34-40, and IteratingSystem.update's filter
AIBegin ==
  /\ pc = "systems"
  /\ sysIdx <= Len(systems)
  /\ systems[sysIdx] = "AI"
  /\ playerEntity' = findPlayer(snapshot)
  /\ queue' = filterEntities(snapshot, requiredComponents("AI"))
  /\ IF queue' = <<>>
     THEN pc' = "systems" /\ sysIdx' = sysIdx + 1
     ELSE pc' = "AI" /\ sysIdx' = sysIdx
  /\ ran' = Append(ran, "AI")
  /\ UNCHANGED <<entityVars, worldVars, snapshot, now>>
  /\ attackLog' = NoAttack
  /\ UNCHANGED <<diedCount, killedCount, frameDied, aiKilled, deadAtScan>>
  /\ UNCHANGED restVars

\* One turn of IteratingSystem.update's loop for AISystem: processEntity and,
\* inside it, the synchronous combat:attack dispatch
AIProcessEntity ==
  /\ pc = "AI"
  /\ queue # <<>>
  /\ IF processEntityThrows(Head(queue), playerEntity)
     THEN \* the error leaves processEntity, AISystem.update and World.update
          /\ pc' = "error"
          /\ attackLog' = NoAttack
          /\ UNCHANGED <<aiState, targetId, vel, rotation, currentPatrolIndex,
                         current, lastAttackTime, aiKilled, queue, sysIdx>>
     ELSE /\ LET e == Head(queue)
                 r == processEntity(e, playerEntity)
             IN /\ aiState' = [aiState EXCEPT ![e] = r.state]
                /\ targetId' = [targetId EXCEPT ![e] = r.target]
                /\ vel' = [vel EXCEPT ![e] = r.vel]
                /\ rotation' = [rotation EXCEPT ![e] = r.rotation]
                /\ currentPatrolIndex' = [currentPatrolIndex EXCEPT ![e] = r.patrolIndex]
                /\ IF r.attack
                   THEN \E variance \in 0..(VarianceRange - 1) :
                          handleAttack(e, playerEntity, variance, TRUE)
                   ELSE /\ attackLog' = NoAttack
                        /\ UNCHANGED <<current, lastAttackTime, aiKilled>>
          /\ queue' = Tail(queue)
          /\ advance(Tail(queue))
  /\ UNCHANGED <<nextId, kind, active, max, strength, defense, pos, behaviorType,
                 reward, level, experience, experienceToNext, kills, statPoints>>
  /\ UNCHANGED <<worldVars, snapshot, playerEntity, now>>
  /\ UNCHANGED <<ran, diedCount, killedCount, frameDied, deadAtScan>>
  /\ UNCHANGED restAI


\* ---------------------------------------------------------------- CombatSystem
\* event counters stop at CountCap
bump(n) == MinOf(n + 1, CountCap)

\* CombatSystem.update, line 252: the filter, evaluated once per pass
CombatBegin ==
  /\ pc = "systems"
  /\ sysIdx <= Len(systems)
  /\ systems[sysIdx] = "Combat"
  /\ queue' = filterEntities(snapshot, requiredComponents("Combat"))
  /\ IF queue' = <<>>
     THEN pc' = "systems" /\ sysIdx' = sysIdx + 1
     ELSE pc' = "Combat" /\ sysIdx' = sysIdx
  /\ ran' = Append(ran, "Combat")
  /\ deadAtScan' = {e \in Range(snapshot) :
                      active[e] /\ hasComponent(e, "Health") /\ isDead(current[e])}
  /\ UNCHANGED <<entityVars, worldVars, snapshot, playerEntity, now>>
  /\ attackLog' = NoAttack
  /\ UNCHANGED <<diedCount, killedCount, frameDied, aiKilled>>
  /\ UNCHANGED restVars

\* Faulty variant of deathEvents: handlePlayerDeath and deadEntity.destroy()
\* come before the rest
deathEventsDestroyingFirst(e, award, up, newLevel) ==
  LET ev(n, seen, l) == [name |-> n, entity |-> e, sawActive |-> seen, level |-> l]
  IN (IF hasComponent(e, "Player") THEN <<ev("game:over", active[e], 0)>> ELSE <<>>)
     \o <<ev("entity:died", FALSE, 0)>>
     \o (IF hasComponent(e, "Enemy")
         THEN <<ev("enemy:killed", FALSE, 0)>>
              \o (IF award THEN <<ev("player:exp_gained", FALSE, 0)>> ELSE <<>>)
              \o (IF up THEN <<ev("player:levelup", FALSE, newLevel),
                               ev("ui:notification", FALSE, newLevel)>>
                  ELSE <<>>)
         ELSE <<>>)

\* Faulty variant of deathEvents: player:levelup carries the level the player
\* had before
deathEventsOldLevel(e, award, up, newLevel) ==
  LET ev(n, l) == [name |-> n, entity |-> e, sawActive |-> active[e], level |-> l]
  IN <<ev("entity:died", 0)>>
     \o (IF hasComponent(e, "Enemy")
         THEN <<ev("enemy:killed", 0)>>
              \o (IF award THEN <<ev("player:exp_gained", 0)>> ELSE <<>>)
              \o (IF up THEN <<ev("player:levelup", newLevel - 1),
                               ev("ui:notification", newLevel)>>
                  ELSE <<>>)
         ELSE <<>>)
     \o (IF hasComponent(e, "Player") THEN <<ev("game:over", 0)>> ELSE <<>>)

\* the eventBus.emit calls of handleEntityDeath (lines 326, 329-336),
\* handleEnemyDeath (363, 385, 388-390), handlePlayerLevelUp (432, 438) and
\* handlePlayerDeath (401), in program order; deadEntity.destroy() comes after
\* them all (line 341), so each listener finds the entity as it was
deathEvents(e, award, up, newLevel) ==
  LET ev(n, l) == [name |-> n, entity |-> e, sawActive |-> active[e], level |-> l]
  IN <<ev("entity:died", 0)>>
     \o (IF hasComponent(e, "Enemy")
         THEN <<ev("enemy:killed", 0)>>
              \o (IF award THEN <<ev("player:exp_gained", 0)>> ELSE <<>>)
              \o (IF up THEN <<ev("player:levelup", newLevel),
                               ev("ui:notification", newLevel)>>
                  ELSE <<>>)
         ELSE <<>>)
     \o (IF hasComponent(e, "Player") THEN <<ev("game:over", 0)>> ELSE <<>>)

\* CombatSystem.handleEntityDeath with handleEnemyDeath, handlePlayerDeath and
\* handlePlayerLevelUp: events, the experience award, then entity.destroy()
handleEntityDeath(e) ==
  LET p == findPlayer(snapshot)
      award == hasComponent(e, "Enemy") /\ p # NoEntity
      pl == IF award
            THEN addExperience([level |-> level[p], experience |-> experience[p],
                                experienceToNext |-> experienceToNext[p],
                                statPoints |-> statPoints[p]], reward[e])
            ELSE [level |-> 0, experience |-> 0, experienceToNext |-> 0,
                  statPoints |-> 0, leveledUp |-> FALSE]
      up == award /\ pl.leveledUp
  IN /\ diedCount' = [diedCount EXCEPT ![e] = bump(@)]
     /\ killedCount' = IF hasComponent(e, "Enemy")
                       THEN [killedCount EXCEPT ![e] = bump(@)] ELSE killedCount
     /\ frameDied' = frameDied \cup {e}
     /\ kills' = IF award THEN [kills EXCEPT ![p] = @ + 1] ELSE kills
     /\ level' = IF award THEN [level EXCEPT ![p] = pl.level] ELSE level
     /\ experience' = IF award THEN [experience EXCEPT ![p] = pl.experience]
                      ELSE experience
     /\ experienceToNext' =
          IF award THEN [experienceToNext EXCEPT ![p] = pl.experienceToNext]
          ELSE experienceToNext
     /\ statPoints' = IF award THEN [statPoints EXCEPT ![p] = pl.statPoints]
                      ELSE statPoints
     /\ strength' = IF up /\ hasComponent(p, "Combat")
                    THEN [strength EXCEPT ![p] = @ + LevelUpStrength] ELSE strength
     /\ defense' = IF up /\ hasComponent(p, "Combat")
                   THEN [defense EXCEPT ![p] = @ + LevelUpDefense] ELSE defense
     /\ max' = IF up /\ hasComponent(p, "Health")
               THEN [max EXCEPT ![p] = @ + LevelUpHealth] ELSE max
     /\ current' = IF up /\ hasComponent(p, "Health")
                   THEN [current EXCEPT ![p] = max'[p]] ELSE current
     /\ deathLog' = deathEvents(e, award, up, pl.level)
     /\ destroy(e)

\* One turn of the loop of CombatSystem.update, lines 254-260
CombatProcessEntity ==
  /\ pc = "Combat"
  /\ queue # <<>>
  /\ LET e == Head(queue) IN
     IF isDead(current[e])
     THEN handleEntityDeath(e)
     ELSE /\ UNCHANGED <<diedCount, killedCount, frameDied, kills, level, experience,
                         experienceToNext, statPoints, strength, defense, max,
                         current, active>>
          /\ deathLog' = <<>>
  /\ queue' = Tail(queue)
  /\ advance(Tail(queue))
  /\ UNCHANGED <<nextId, kind, lastAttackTime, pos, rotation, vel, behaviorType,
                 aiState, targetId, reward>>
  /\ UNCHANGED <<worldVars, snapshot, playerEntity, now>>
  /\ attackLog' = NoAttack
  /\ UNCHANGED <<ran, aiKilled, deadAtScan>>
  /\ UNCHANGED <<restCombat, collisionLog, currentPatrolIndex>>

\* World.update, line 179: the second flush, after the last system
UpdateEnd ==
  /\ pc = "systems"
  /\ sysIdx > Len(systems)
  /\ entities' = processPendingEntities(entities, entitiesToAdd, entitiesToRemove)
  /\ entitiesToAdd' = <<>>
  /\ entitiesToRemove' = <<>>
  /\ pc' = "idle"
  /\ sysIdx' = 1
  /\ snapshot' = <<>>
  /\ playerEntity' = NoEntity
  /\ ran' = <<>>
  /\ frameDied' = {}
  /\ aiKilled' = {}
  /\ deadAtScan' = {}
  /\ attackLog' = NoAttack
  /\ UNCHANGED <<systems, listening, outOfOrder, queue, now, diedCount, killedCount>>
  /\ UNCHANGED entityVars
  /\ UNCHANGED restVars

\* ------------------------------------------------------------- environment
\* Date.now() moves on
Tick ==
  /\ pc = "idle"
  /\ now < MaxTime
  /\ now' = now + 1
  /\ attackLog' = NoAttack
  /\ UNCHANGED <<entityVars, worldVars, frameVars, keptHist>>
  /\ UNCHANGED restVars

\* Game.playerEntity: the entity EntityFactory.createPlayer returned
gamePlayer ==
  IF \E e \in Created : kind[e] = "player"
  THEN CHOOSE e \in Created : kind[e] = "player"
  ELSE NoEntity

\* Game.handleAttackInput, between two frames: the first stored entity with a
\* Transform within the player's attackRange is attacked
PlayerAttack ==
  /\ pc = "idle"
  /\ gamePlayer # NoEntity
  /\ LET p == gamePlayer
         inRange == SelectSeq(getEntities,
                      LAMBDA e : /\ hasComponent(e, "Transform")
                                 /\ e # p
                                 /\ Abs(pos[p] - pos[e]) <= attackRange(p))
     IN /\ canAttack(lastAttackTime[p], attackCooldown(p), now)
        /\ inRange # <<>>
        /\ \E variance \in 0..(VarianceRange - 1) :
             handleAttack(p, Head(inRange), variance, FALSE)
  /\ UNCHANGED <<nextId, kind, active, max, strength, defense, pos, rotation, vel,
                 behaviorType, aiState, targetId, reward, level, experience,
                 experienceToNext, kills, statPoints>>
  /\ UNCHANGED <<worldVars, frameVars, now>>
  /\ UNCHANGED <<ran, diedCount, killedCount, frameDied, deadAtScan>>
  /\ UNCHANGED restVars

\* EventBus.emit('combat:attack', {attacker, target}) by any holder of the bus:
\* the listener runs whoever emitted the request
AttackRequest ==
  /\ pc = "idle"
  /\ \E a \in Created, t \in Created, variance \in 0..(VarianceRange - 1) :
       handleAttack(a, t, variance, FALSE)
  /\ UNCHANGED <<nextId, kind, active, max, strength, defense, pos, rotation, vel,
                 behaviorType, aiState, targetId, reward, level, experience,
                 experienceToNext, kills, statPoints>>
  /\ UNCHANGED <<worldVars, frameVars, now>>
  /\ UNCHANGED <<ran, diedCount, killedCount, frameDied, deadAtScan>>
  /\ UNCHANGED restVars

\* HealthComponent.takeDamage(amount) called on an entity's Health
TakeDamage ==
  \E e \in Created, amount \in Amounts :
    /\ hasComponent(e, "Health")
    /\ takeDamage(current[e], amount) <= HealthCap
    /\ current' = [current EXCEPT ![e] = takeDamage(current[e], amount)]
    /\ UNCHANGED <<nextId, kind, active, max, strength, defense, lastAttackTime, pos,
                   rotation, vel, behaviorType, aiState, targetId, reward, level,
                   experience, experienceToNext, kills, statPoints>>
    /\ UNCHANGED <<worldVars, frameVars, now, histVars>>
    /\ UNCHANGED restVars

\* HealthComponent.heal(amount) called on an entity's Health
Heal ==
  \E e \in Created, amount \in Amounts :
    /\ hasComponent(e, "Health")
    /\ heal(current[e], max[e], amount) >= -HealthCap
    /\ current' = [current EXCEPT ![e] = heal(current[e], max[e], amount)]
    /\ UNCHANGED <<nextId, kind, active, max, strength, defense, lastAttackTime, pos,
                   rotation, vel, behaviorType, aiState, targetId, reward, level,
                   experience, experienceToNext, kills, statPoints>>
    /\ UNCHANGED <<worldVars, frameVars, now, histVars>>
    /\ UNCHANGED restVars

\* Game.handleMovementInput between two frames: the player's velocity takes
\* one step of acceleration in the direction of the key
HandleMovementInput ==
  /\ pc = "idle"
  /\ gamePlayer # NoEntity
  /\ hasComponent(gamePlayer, "Movement")
  /\ \E dir \in {-1, 1} :
       vel' = [vel EXCEPT ![gamePlayer] =
                 moveInDirection(vel[gamePlayer], dir, maxSpeed(gamePlayer))]
  /\ UNCHANGED <<nextId, kind, active, current, max, strength, defense,
                 lastAttackTime, pos, rotation, behaviorType, aiState, targetId,
                 reward, level, experience, experienceToNext, kills, statPoints>>
  /\ UNCHANGED <<worldVars, frameVars, now, keptHist>>
  /\ attackLog' = NoAttack
  /\ UNCHANGED restVars

\* ai.setState(AIState.DEAD) by a holder of the entity, at any moment
SetStateDead ==
  /\ \E e \in Created :
       /\ hasComponent(e, "AI")
       /\ aiState[e] # "dead"
       /\ aiState' = [aiState EXCEPT ![e] = "dead"]
  /\ UNCHANGED <<nextId, kind, active, current, max, strength, defense,
                 lastAttackTime, pos, rotation, vel, behaviorType, targetId,
                 reward, level, experience, experienceToNext, kills, statPoints>>
  /\ UNCHANGED <<worldVars, frameVars, now, keptHist>>
  /\ attackLog' = NoAttack
  /\ UNCHANGED restVars

\* PlayerComponent.addExperience(amount) called on the player's component
AddExperience ==
  \E p \in Created, amount \in ExpAmounts :
    /\ hasComponent(p, "Player")
    /\ level[p] < MaxLevel
    /\ LET pl == addExperience([level |-> level[p], experience |-> experience[p],
                                experienceToNext |-> experienceToNext[p],
                                statPoints |-> statPoints[p]], amount)
       IN /\ level' = [level EXCEPT ![p] = pl.level]
          /\ experience' = [experience EXCEPT ![p] = pl.experience]
          /\ experienceToNext' = [experienceToNext EXCEPT ![p] = pl.experienceToNext]
          /\ statPoints' = [statPoints EXCEPT ![p] = pl.statPoints]
          /\ expLog' = [called |-> TRUE, player |-> p, amount |-> amount,
                        returned |-> pl.leveledUp]
    /\ UNCHANGED <<nextId, kind, active, current, max, strength, defense,
                   lastAttackTime, pos, rotation, vel, behaviorType, aiState,
                   targetId, reward, kills>>
    /\ UNCHANGED <<worldVars, frameVars, now, histVars>>
    /\ UNCHANGED <<aiConfig, busVars, colliderVars, collisionLog, currentPatrolIndex,
                   aloneVars, deathLog, spawnLog, lifeLog, apartVars>>

\* ------------------------------------------------------------------ EventBus
\* new EventBus()
InitBus ==
  /\ busListeners = [ev \in Events |-> <<>>]
  /\ busOnce = [ev \in Events |-> <<>>]
  /\ busStack = <<>>
  /\ busRegistered = [ev \in Events |-> <<>>]
  /\ busExpected = <<>>
  /\ busCalled = <<>>
  /\ onceLog = [cb \in Callbacks |-> [calls |-> 0, removed |-> FALSE]]

\* what the bus leaves alone
nonBus == <<entityVars, worldVars, frameVars, now, histVars, expLog, aiConfig,
            currentPatrolIndex, colliderVars, collisionLog, aloneVars, deathLog,
            spawnLog, lifeLog, apartVars>>

\* the callback is registered for no event
Unregistered(cb) ==
  \A ev \in Events : cb \notin Range(busListeners[ev]) /\ cb \notin Range(busOnce[ev])

\* Set.delete on a Set kept as the sequence of its insertions
SetDelete(set, cb) == SelectSeq(set, LAMBDA x : x # cb)

\* the callback is registered for no event and no emit under way has still
\* to call it
Fresh(cb) ==
  /\ Unregistered(cb)
  /\ \A i \in 1..Len(busStack) : cb \notin Range(busStack[i].listenersCopy)

\* callback(data) was run for a callback taken from the once-listeners
countOnce(log, cb, phase) ==
  IF phase = "once" THEN [log EXCEPT ![cb].calls = MinOf(@ + 1, CountCap)] ELSE log

\* Set.delete took the callback out of the once-listeners of the event
noteRemoved(log, ev, cb) ==
  IF cb \in Range(busOnce[ev]) THEN [log EXCEPT ![cb].removed = TRUE] ELSE log

\* when an emit returns, the record of a callback that is in no Set of
\* once-listeners and that no emit under way has still to call is dropped:
\* the bus holds it nowhere and cannot call it
forgetGone(log, stack) ==
  [cb \in Callbacks |->
     IF \/ \E ev \in Events : cb \in Range(busOnce[ev])
        \/ \E i \in 1..Len(stack) : cb \in Range(stack[i].listenersCopy)
     THEN log[cb]
     ELSE [calls |-> 0, removed |-> FALSE]]

\* EventBus.on(event, callback), outside any emit
On ==
  /\ busStack = <<>>
  /\ \E ev \in Events, cb \in Callbacks :
       /\ Unregistered(cb)
       /\ cb \in Emitters => ev = "a"
       /\ busListeners' = [busListeners EXCEPT ![ev] = Append(@, cb)]
       /\ busRegistered' = [busRegistered EXCEPT ![ev] = Append(@, cb)]
  /\ UNCHANGED <<busOnce, busStack, busExpected, busCalled, onceLog>>
  /\ UNCHANGED nonBus

\* EventBus.once(event, callback), outside any emit
Once ==
  /\ busStack = <<>>
  /\ \E ev \in Events, cb \in Callbacks :
       /\ Unregistered(cb)
       /\ cb \in Emitters => ev = "a"
       /\ busOnce' = [busOnce EXCEPT ![ev] = Append(@, cb)]
       /\ busRegistered' = [busRegistered EXCEPT ![ev] = Append(@, cb)]
       /\ onceLog' = [onceLog EXCEPT ![cb] = [calls |-> 0, removed |-> FALSE]]
  /\ UNCHANGED <<busListeners, busStack, busExpected, busCalled>>
  /\ UNCHANGED nonBus

\* EventBus.off(event, callback), outside any emit
Off ==
  /\ busStack = <<>>
  /\ \E ev \in Events, cb \in Callbacks :
       /\ cb \in Range(busListeners[ev]) \/ cb \in Range(busOnce[ev])
       /\ busListeners' = [busListeners EXCEPT ![ev] = SetDelete(@, cb)]
       /\ busOnce' = [busOnce EXCEPT ![ev] = SetDelete(@, cb)]
       /\ busRegistered' = [busRegistered EXCEPT ![ev] = SetDelete(@, cb)]
       /\ onceLog' = noteRemoved(onceLog, ev, cb)
  /\ UNCHANGED <<busStack, busExpected, busCalled>>
  /\ UNCHANGED nonBus

\* the unsubscribe of the subscription that once(event, callback) returned,
\* outside any emit: listeners.delete(callback) on the once-listeners
Unsubscribe ==
  /\ busStack = <<>>
  /\ \E ev \in Events, cb \in Callbacks :
       /\ cb \in Range(busOnce[ev])
       /\ busOnce' = [busOnce EXCEPT ![ev] = SetDelete(@, cb)]
       /\ busRegistered' = [busRegistered EXCEPT ![ev] = SetDelete(@, cb)]
       /\ onceLog' = noteRemoved(onceLog, ev, cb)
  /\ UNCHANGED <<busListeners, busStack, busExpected, busCalled>>
  /\ UNCHANGED nonBus

\* EventBus.emit(event), lines 92-95: listenersCopy of the regular listeners
emit(ev) ==
  /\ busStack' = Append(busStack, [event |-> ev, phase |-> "on",
                                   listenersCopy |-> busListeners[ev]])
  /\ busExpected' = Append(busExpected, busRegistered[ev])
  /\ busCalled' = Append(busCalled, <<>>)

\* an emit from outside the bus's listeners
Emit ==
  /\ busStack = <<>>
  /\ \E ev \in Events : emit(ev)
  /\ UNCHANGED <<busListeners, busOnce, busRegistered, onceLog>>
  /\ UNCHANGED nonBus

\* EventBus.emit, lines 96-98 and 108-110: callback(data) for the next
\* callback of listenersCopy; the callback of Emitters emits event "b" itself
CallListener ==
  /\ busStack # <<>>
  /\ LET top == Len(busStack)
         frame == busStack[top]
     IN /\ frame.listenersCopy # <<>>
        /\ LET cb == Head(frame.listenersCopy)
               rest == [busStack EXCEPT ![top].listenersCopy = Tail(@)]
               called == [busCalled EXCEPT ![top] = Append(@, cb)]
           IN IF cb \in Emitters /\ Len(busStack) < MaxDepth
              THEN /\ busStack' = Append(rest, [event |-> "b", phase |-> "on",
                                                listenersCopy |-> busListeners["b"]])
                   /\ busExpected' = Append(busExpected, busRegistered["b"])
                   /\ busCalled' = Append(called, <<>>)
              ELSE /\ busStack' = rest
                   /\ busCalled' = called
                   /\ UNCHANGED busExpected
        /\ onceLog' = countOnce(onceLog, Head(frame.listenersCopy), frame.phase)
  /\ UNCHANGED <<busListeners, busOnce, busRegistered>>
  /\ UNCHANGED nonBus

\* EventBus.emit, lines 96-98 and 108-110: callback(data) for a callback
\* that emits the event being dispatched once more
CallListenerEmitting ==
  /\ busStack # <<>>
  /\ Len(busStack) < MaxDepth
  /\ LET top == Len(busStack)
         frame == busStack[top]
     IN /\ frame.listenersCopy # <<>>
        /\ LET cb == Head(frame.listenersCopy)
               rest == [busStack EXCEPT ![top].listenersCopy = Tail(@)]
               called == [busCalled EXCEPT ![top] = Append(@, cb)]
           IN /\ cb \notin Emitters
              /\ busStack' = Append(rest, [event |-> frame.event, phase |-> "on",
                                           listenersCopy |-> busListeners[frame.event]])
              /\ busExpected' = Append(busExpected, busRegistered[frame.event])
              /\ busCalled' = Append(called, <<>>)
              /\ onceLog' = countOnce(onceLog, cb, frame.phase)
  /\ UNCHANGED <<busListeners, busOnce, busRegistered>>
  /\ UNCHANGED nonBus

\* callback(data) for a callback that subscribes another callback to the
\* event being dispatched, with on or with once
CallListenerSubscribing ==
  /\ busStack # <<>>
  /\ LET top == Len(busStack)
         frame == busStack[top]
     IN /\ frame.listenersCopy # <<>>
        /\ LET cb == Head(frame.listenersCopy) IN
           /\ cb \notin Emitters
           /\ busStack' = [busStack EXCEPT ![top].listenersCopy = Tail(@)]
           /\ busCalled' = [busCalled EXCEPT ![top] = Append(@, cb)]
           /\ \E other \in Callbacks \ Emitters, how \in {"on", "once"} :
                /\ Fresh(other)
                /\ other # cb
                \* callbacks are alike: the first one at hand is taken
                /\ \A c \in Callbacks \ (Emitters \cup {cb}) : Fresh(c) => other <= c
                /\ busListeners' = IF how = "on"
                                   THEN [busListeners EXCEPT ![frame.event] = Append(@, other)]
                                   ELSE busListeners
                /\ busOnce' = IF how = "once"
                              THEN [busOnce EXCEPT ![frame.event] = Append(@, other)]
                              ELSE busOnce
                /\ busRegistered' = [busRegistered EXCEPT ![frame.event] = Append(@, other)]
                /\ onceLog' = [countOnce(onceLog, cb, frame.phase) EXCEPT
                                 ![other] = [calls |-> 0, removed |-> FALSE]]
  /\ UNCHANGED busExpected
  /\ UNCHANGED nonBus

\* callback(data) for a callback that unsubscribes a callback from the
\* event being dispatched, with off or with the unsubscribe that once returned
CallListenerUnsubscribing ==
  /\ busStack # <<>>
  /\ LET top == Len(busStack)
         frame == busStack[top]
     IN /\ frame.listenersCopy # <<>>
        /\ LET cb == Head(frame.listenersCopy) IN
           /\ cb \notin Emitters
           /\ busStack' = [busStack EXCEPT ![top].listenersCopy = Tail(@)]
           /\ busCalled' = [busCalled EXCEPT ![top] = Append(@, cb)]
           /\ \E other \in Callbacks, how \in {"off", "unsubscribe"} :
                /\ IF how = "off"
                   THEN other \in Range(busListeners[frame.event])
                          \cup Range(busOnce[frame.event])
                   ELSE other \in Range(busOnce[frame.event])
                /\ busListeners' = IF how = "off"
                                   THEN [busListeners EXCEPT ![frame.event] = SetDelete(@, other)]
                                   ELSE busListeners
                /\ busOnce' = [busOnce EXCEPT ![frame.event] = SetDelete(@, other)]
                /\ busRegistered' = [busRegistered EXCEPT ![frame.event] = SetDelete(@, other)]
                /\ onceLog' = noteRemoved(countOnce(onceLog, cb, frame.phase),
                                          frame.event, other)
  /\ UNCHANGED busExpected
  /\ UNCHANGED nonBus

\* Faulty variant of TakeOnceListeners: the once-listeners' Set is copied
\* but not cleared
TakeOnceListenersKeeping ==
  /\ busStack # <<>>
  /\ LET top == Len(busStack)
         frame == busStack[top]
     IN /\ frame.phase = "on"
        /\ frame.listenersCopy = <<>>
        /\ busStack' = [busStack EXCEPT ![top] =
                          [event |-> frame.event, phase |-> "once",
                           listenersCopy |-> busOnce[frame.event]]]
  /\ UNCHANGED <<busListeners, busOnce, busRegistered, busExpected, busCalled, onceLog>>
  /\ UNCHANGED nonBus

\* EventBus.emit, lines 102-106: after the regular listeners, the once
\* listeners are copied and their Set is cleared
TakeOnceListeners ==
  /\ busStack # <<>>
  /\ LET top == Len(busStack)
         frame == busStack[top]
     IN /\ frame.phase = "on"
        /\ frame.listenersCopy = <<>>
        /\ busStack' = [busStack EXCEPT ![top] =
                          [event |-> frame.event, phase |-> "once",
                           listenersCopy |-> busOnce[frame.event]]]
        /\ busOnce' = [busOnce EXCEPT ![frame.event] = <<>>]
        /\ busRegistered' = [busRegistered EXCEPT ![frame.event] =
                               SelectSeq(@, LAMBDA cb : cb \notin Range(busOnce[frame.event]))]
  /\ UNCHANGED <<busListeners, busExpected, busCalled, onceLog>>
  /\ UNCHANGED nonBus

\* EventBus.emit returns
EmitReturn ==
  /\ busStack # <<>>
  /\ LET top == Len(busStack)
         frame == busStack[top]
     IN /\ frame.phase = "once"
        /\ frame.listenersCopy = <<>>
        /\ busStack' = SubSeq(busStack, 1, top - 1)
        /\ busExpected' = SubSeq(busExpected, 1, top - 1)
        /\ busCalled' = SubSeq(busCalled, 1, top - 1)
        /\ onceLog' = forgetGone(onceLog, SubSeq(busStack, 1, top - 1))
  /\ UNCHANGED <<busListeners, busOnce, busRegistered>>
  /\ UNCHANGED nonBus

\* ------------------------------------------------------- the typed EventBus
\* src/core/events/EventBus.ts, for one event type.  The bus and the pool
\* below share nothing with the World
nonApart == <<entityVars, worldVars, frameVars, now, histVars, expLog, aiConfig,
              busVars, colliderVars, aloneVars, deathLog, collisionLog,
              currentPatrolIndex, spawnLog, lifeLog>>

\* new EventBus()
InitNoTypedBus ==
  /\ typedListeners = <<>>
  /\ typedStack = <<>>
  /\ typedInvoked = [cb \in Callbacks |-> 0]

\* EventBus.off(eventType, handler): handlers.delete(handler)
typedOff(listeners, h) == SelectSeq(listeners, LAMBDA x : x # h)

\* onceHandler, line 39: handler(data) of a handler registered with once
invoked(log, h) ==
  IF h.once THEN [log EXCEPT ![h.handler] = MinOf(@ + 1, CountCap)] ELSE log

\* onceHandler, line 40, once handler(data) has returned:
\* this.off(eventType, onceHandler); a plain handler does nothing more
afterHandler(listeners, h) ==
  IF h.once THEN typedOff(listeners, h) ELSE listeners

\* EventBus.emit(eventType, data) from outside the handlers: handlersCopy
TypedEmit ==
  /\ typedStack = <<>>
  /\ typedStack' = <<[handlersCopy |-> typedListeners, running |-> <<>>]>>
  /\ UNCHANGED <<typedListeners, typedInvoked>>
  /\ UNCHANGED <<nonApart, poolVars>>

\* EventBus.emit, lines 55-57: handler(data) for the next of handlersCopy,
\* and the handler returns
TypedCall ==
  /\ typedStack # <<>>
  /\ LET top == Len(typedStack)
         frame == typedStack[top]
     IN /\ frame.handlersCopy # <<>>
        /\ LET h == Head(frame.handlersCopy) IN
           /\ typedInvoked' = invoked(typedInvoked, h)
           /\ typedListeners' = afterHandler(typedListeners, h)
           /\ typedStack' = [typedStack EXCEPT ![top].handlersCopy = Tail(@)]
  /\ UNCHANGED <<nonApart, poolVars>>

\* EventBus.emit, lines 56-60: handler(data) throws and emit logs the error;
\* a onceHandler is left before its line 40
TypedCallThrowing ==
  /\ typedStack # <<>>
  /\ LET top == Len(typedStack)
         frame == typedStack[top]
     IN /\ frame.handlersCopy # <<>>
        /\ LET h == Head(frame.handlersCopy) IN
           /\ typedInvoked' = invoked(typedInvoked, h)
           /\ typedStack' = [typedStack EXCEPT ![top].handlersCopy = Tail(@)]
  /\ UNCHANGED typedListeners
  /\ UNCHANGED <<nonApart, poolVars>>

\* handler(data) for a handler that emits the event type again: the inner
\* emit starts while the handler, and the onceHandler around it, is running
TypedCallEmitting ==
  /\ typedStack # <<>>
  /\ Len(typedStack) < MaxDepth
  /\ LET top == Len(typedStack)
         frame == typedStack[top]
     IN /\ frame.handlersCopy # <<>>
        /\ LET h == Head(frame.handlersCopy) IN
           /\ typedInvoked' = invoked(typedInvoked, h)
           /\ typedStack' =
                Append([typedStack EXCEPT ![top] =
                          [handlersCopy |-> Tail(frame.handlersCopy), running |-> <<h>>]],
                       [handlersCopy |-> typedListeners, running |-> <<>>])
  /\ UNCHANGED typedListeners
  /\ UNCHANGED <<nonApart, poolVars>>

\* EventBus.emit returns; the handler that called it returns in its turn
TypedReturn ==
  /\ typedStack # <<>>
  /\ LET top == Len(typedStack)
         frame == typedStack[top]
     IN /\ frame.handlersCopy = <<>>
        /\ IF top = 1
           THEN /\ typedStack' = <<>>
                /\ UNCHANGED typedListeners
           ELSE /\ typedStack' = [SubSeq(typedStack, 1, top - 1)
                                    EXCEPT ![top - 1].running = <<>>]
                /\ typedListeners' =
                     afterHandler(typedListeners, Head(typedStack[top - 1].running))
  /\ UNCHANGED typedInvoked
  /\ UNCHANGED <<nonApart, poolVars>>

\* ---------------------------------------------------------------- ObjectPool
NoPoolCall == [op |-> "none", obj |-> 0, from |-> "none"]

\* no pool was constructed
InitNoPool ==
  /\ available = <<>>
  /\ inUse = <<>>
  /\ maxSize = 0
  /\ created = 0
  /\ held = {}
  /\ poolLog = NoPoolCall

\* lines 65-67 and 77-79: the object is kept if the pool is under its
\* maximum size
giveBack(avail, obj) ==
  IF maxSize = 0 \/ Len(avail) < maxSize THEN Append(avail, obj) ELSE avail

\* Faulty variant of release: inUse is not asked
releaseUnchecked(avail, used, obj) ==
  [available |-> giveBack(avail, obj),
   inUse |-> SelectSeq(used, LAMBDA x : x # obj)]

\* ObjectPool.release(obj): available and inUse after the call
release(avail, used, obj) ==
  IF obj \notin Range(used)
  THEN [available |-> avail, inUse |-> used]
  ELSE [available |-> giveBack(avail, obj),
        inUse |-> SelectSeq(used, LAMBDA x : x # obj)]

\* ObjectPool.releaseAll, the loop over inUse: available after it
RECURSIVE releaseAll(_, _)
releaseAll(avail, used) ==
  IF used = <<>> THEN avail
  ELSE releaseAll(giveBack(avail, Head(used)), Tail(used))

\* ObjectPool.acquire(): from available, or from the factory
Acquire ==
  /\ available = <<>> => created < MaxObjects
  /\ LET obj == IF available # <<>> THEN available[Len(available)] ELSE created + 1
     IN /\ available' = IF available # <<>>
                        THEN SubSeq(available, 1, Len(available) - 1) ELSE available
        /\ created' = IF available # <<>> THEN created ELSE created + 1
        /\ inUse' = IF obj \in Range(inUse) THEN inUse ELSE Append(inUse, obj)
        /\ held' = held \cup {obj}
        /\ poolLog' = [op |-> "acquire", obj |-> obj,
                       from |-> IF available # <<>> THEN "available" ELSE "factory"]
  /\ UNCHANGED maxSize
  /\ UNCHANGED <<nonApart, typedVars>>

\* ObjectPool.release(obj), for any object the factory has made
Release ==
  /\ \E obj \in 1..created :
       LET after == release(available, inUse, obj)
       IN /\ available' = after.available
          /\ inUse' = after.inUse
          /\ held' = held \ {obj}
          /\ poolLog' = [op |-> "release", obj |-> obj,
                         from |-> IF obj \in Range(inUse) THEN "inUse" ELSE "none"]
  /\ UNCHANGED <<maxSize, created>>
  /\ UNCHANGED <<nonApart, typedVars>>

\* ObjectPool.releaseAll()
ReleaseAll ==
  /\ available' = releaseAll(available, inUse)
  /\ inUse' = <<>>
  /\ held' = {}
  /\ poolLog' = [op |-> "releaseAll", obj |-> 0, from |-> "none"]
  /\ UNCHANGED <<maxSize, created>>
  /\ UNCHANGED <<nonApart, typedVars>>

\* ObjectPool.clear(): callers keep the objects they hold
Clear ==
  /\ available' = <<>>
  /\ inUse' = <<>>
  /\ poolLog' = [op |-> "clear", obj |-> 0, from |-> "none"]
  /\ UNCHANGED <<maxSize, created, held>>
  /\ UNCHANGED <<nonApart, typedVars>>

\* ObjectPool.prewarm(1)
Prewarm ==
  /\ created < MaxObjects
  /\ available' = Append(available, created + 1)
  /\ created' = created + 1
  /\ poolLog' = [op |-> "prewarm", obj |-> created + 1, from |-> "factory"]
  /\ UNCHANGED <<inUse, maxSize, held>>
  /\ UNCHANGED <<nonApart, typedVars>>

\* --------------------------------------------------------------- behaviours
\* What no construction below varies: fresh component fields, an empty World,
\* no World.update under way, nothing observed yet
InitApartFromBus ==
  /\ active = [e \in Ids |-> TRUE]
  /\ lastAttackTime = [e \in Ids |-> 0]
  /\ rotation = [e \in Ids |-> 0]
  /\ vel = [e \in Ids |-> 0]
  /\ targetId = [e \in Ids |-> NoEntity]
  /\ experience = [e \in Ids |-> 0]
  /\ kills = [e \in Ids |-> 0]
  /\ statPoints = [e \in Ids |-> 0]
  /\ entities = <<>>
  /\ entitiesToRemove = <<>>
  /\ pc = "idle"
  /\ sysIdx = 1
  /\ snapshot = <<>>
  /\ queue = <<>>
  /\ playerEntity = NoEntity
  /\ now = 0
  /\ ran = <<>>
  /\ diedCount = [e \in Ids |-> 0]
  /\ killedCount = [e \in Ids |-> 0]
  /\ frameDied = {}
  /\ aiKilled = {}
  /\ attackLog = NoAttack
  /\ deadAtScan = {}
  /\ expLog = NoExperience
  /\ currentPatrolIndex = [e \in Ids |-> 0]
  /\ collisionLog = <<>>
  /\ deathLog = <<>>
  /\ spawnLog = NoSpawn
  /\ lifeLog = NoRequests

InitCore ==
  /\ InitApartFromBus
  /\ InitBus
  /\ InitNoTypedBus
  /\ InitNoPool

\* no pair of colliders is handed to checkCollision on its own
InitNoPair ==
  /\ narrowA = NoCollider
  /\ narrowB = NoCollider
  /\ narrowLog = NoCheck

\* EntityFactory: ColliderComponent.circle(config.collider.radius), neither
\* static nor a trigger
InitColliders ==
  /\ colRadius = [e \in Ids |-> FactoryRadius]
  /\ isStatic = [e \in Ids |-> FALSE]
  /\ isTrigger = [e \in Ids |-> FALSE]

\* no MovementComponent is exercised on its own
InitNoMovement ==
  /\ mvVelocity = zero
  /\ mvMaxSpeed = Num(0)
  /\ mvCalled = "none"

InitBlank ==
  /\ InitCore
  /\ InitColliders
  /\ InitNoPair
  /\ InitNoMovement

\* EntityFactory.createEnemy: the ranges of the enemy data, no patrol point
InitAIConfig ==
  /\ aiAggro = [e \in Ids |-> EnemyAggroRange * TileSize]
  /\ aiAttack = [e \in Ids |-> EnemyAttackRange * TileSize]
  /\ patrolPoints = [e \in Ids |-> <<>>]

\* No factory has run: no AI, Enemy or Player component, nothing queued
InitPlain ==
  /\ InitAIConfig
  /\ pos = [e \in Ids |-> 0]
  /\ behaviorType = [e \in Ids |-> "none"]
  /\ aiState = [e \in Ids |-> "none"]
  /\ reward = [e \in Ids |-> 0]
  /\ level = [e \in Ids |-> 0]
  /\ experienceToNext = [e \in Ids |-> 0]
  /\ entitiesToAdd = <<>>

\* No entity constructed yet
\* an empty World without systems, and nothing observed
InitEmptyWorld ==
  /\ InitApartFromBus
  /\ InitColliders
  /\ InitNoPair
  /\ InitNoMovement
  /\ InitPlain
  /\ nextId = 1
  /\ kind = [e \in Ids |-> "none"]
  /\ current = [e \in Ids |-> 0]
  /\ max = [e \in Ids |-> 0]
  /\ strength = [e \in Ids |-> 0]
  /\ defense = [e \in Ids |-> 0]
  /\ systems = <<>>
  /\ listening = FALSE
  /\ outOfOrder = FALSE

InitCommon ==
  /\ InitBlank
  /\ InitPlain
  /\ nextId = 1
  /\ kind = [e \in Ids |-> "none"]
  /\ current = [e \in Ids |-> 0]
  /\ max = [e \in Ids |-> 0]
  /\ strength = [e \in Ids |-> 0]
  /\ defense = [e \in Ids |-> 0]

\* new World(): no system yet
InitWorld ==
  /\ InitCommon
  /\ systems = <<>>
  /\ listening = FALSE
  /\ outOfOrder = FALSE

\* Game.init: setupSystems has registered the four systems before the loop starts
Init ==
  /\ InitCommon
  /\ systems = sortByPriority(<<"Movement", "Collision", "AI", "Combat">>)
  /\ listening = TRUE
  /\ outOfOrder = FALSE

\* The steps of one World.update
FrameStep ==
  \/ UpdateBegin
  \/ MovementUpdate
  \/ CollisionUpdate
  \/ AIBegin
  \/ AIProcessEntity
  \/ CombatBegin
  \/ CombatProcessEntity
  \/ UpdateEnd

\* Game: entities are spawned and input is handled between frames
Spawn == pc = "idle" /\ CreateEntity

Next ==
  \/ Spawn
  \/ Tick
  \/ PlayerAttack
  \/ FrameStep

Spec == Init /\ [][Next]_vars

\* The World as a library: its entity API is called at any moment, also by
\* event listeners while a system runs; systems are registered in any order
NextWorld ==
  \/ CreateWorldEntity
  \/ AddEntity
  \/ RemoveEntity
  \/ DestroyEntity
  \/ AddSystem
  \/ FrameStep

SpecWorld == InitWorld /\ [][NextWorld]_vars

\* A game just started (Game.startNewGame): the player (entity 1) and one enemy
\* of an attacking behaviour (entity 2) are built and queued; then frames,
\* attack input and further emitters of combat:attack on the bus
InitAttack ==
  /\ InitBlank
  /\ InitAIConfig
  /\ nextId = 3
  /\ kind = [e \in Ids |-> IF e = 1 THEN "player" ELSE IF e = 2 THEN "enemy" ELSE "none"]
  /\ \E p \in Positions, b \in {"aggressive", "ranged"}, r \in ExpRewards :
       /\ pos = [e \in Ids |-> IF e = 2 THEN p ELSE PlayerSpawn]
       /\ behaviorType = [e \in Ids |-> IF e = 2 THEN b ELSE "none"]
       /\ reward = [e \in Ids |-> IF e = 2 THEN r ELSE 0]
  /\ aiState = [e \in Ids |-> IF e = 2 THEN "idle" ELSE "none"]
  /\ level = [e \in Ids |-> IF e = 1 THEN 1 ELSE 0]
  /\ experienceToNext = [e \in Ids |-> IF e = 1 THEN InitialExperienceToNext ELSE 0]
  /\ max = [e \in Ids |-> IF e = 1 THEN PlayerHealth ELSE IF e = 2 THEN EnemyHealth ELSE 0]
  /\ current = max
  /\ strength = [e \in Ids |-> IF e = 1 THEN PlayerStrength
                                ELSE IF e = 2 THEN EnemyStrength ELSE 0]
  /\ defense = [e \in Ids |-> IF e = 1 THEN PlayerDefense
                               ELSE IF e = 2 THEN EnemyDefense ELSE 0]
  /\ entitiesToAdd = <<1, 2>>
  /\ systems = sortByPriority(<<"Movement", "Collision", "AI", "Combat">>)
  /\ listening = TRUE
  /\ outOfOrder = FALSE

NextAttack ==
  \/ Tick
  \/ PlayerAttack
  \/ AttackRequest
  \/ FrameStep

SpecAttack == InitAttack /\ [][NextAttack]_vars

\* HealthComponent on its own: new HealthComponent(max) for every entity, then
\* any sequence of takeDamage and heal calls
InitHealth ==
  /\ InitBlank
  /\ InitPlain
  /\ nextId = MaxEntities + 1
  /\ kind = [e \in Ids |-> "prop"]
  /\ max \in [Ids -> 1..MaxHealth]
  /\ current = max
  /\ strength = [e \in Ids |-> 0]
  /\ defense = [e \in Ids |-> 0]
  /\ systems = <<>>
  /\ listening = FALSE
  /\ outOfOrder = FALSE

NextHealth ==
  \/ TakeDamage
  \/ Heal

SpecHealth == InitHealth /\ [][NextHealth]_vars

\* The combat arithmetic on its own: an attacker (entity 1) and a target
\* (entity 2, with or without a Combat component) built with any strength and
\* defense, a CombatSystem listening, then any sequence of attack requests
InitDamage ==
  /\ InitBlank
  /\ InitPlain
  /\ nextId = 3
  /\ \E k \in {"enemy", "prop"} :
       /\ kind = [e \in Ids |-> IF e = 1 THEN "enemy" ELSE IF e = 2 THEN k ELSE "none"]
       /\ max = [e \in Ids |-> IF e = 1 THEN EnemyHealth
                                ELSE IF e = 2
                                     THEN (IF k = "enemy" THEN EnemyHealth ELSE PropHealth)
                                     ELSE 0]
       /\ \E s1 \in Stats, d1 \in Stats :
            \E s2 \in (IF k = "enemy" THEN Stats ELSE {0}) :
              \E d2 \in (IF k = "enemy" THEN Stats ELSE {0}) :
                /\ strength = [e \in Ids |-> IF e = 1 THEN s1 ELSE IF e = 2 THEN s2 ELSE 0]
                /\ defense = [e \in Ids |-> IF e = 1 THEN d1 ELSE IF e = 2 THEN d2 ELSE 0]
  /\ current = max
  /\ systems = sortByPriority(<<"Movement", "Collision", "AI", "Combat">>)
  /\ listening = TRUE
  /\ outOfOrder = FALSE

NextDamage ==
  \/ AttackRequest
  \/ Tick

SpecDamage == InitDamage /\ [][NextDamage]_vars

\* PlayerComponent on its own: new PlayerComponent() on the player (entity 1),
\* then any sequence of addExperience calls
InitExperience ==
  /\ InitBlank
  /\ InitAIConfig
  /\ nextId = 2
  /\ kind = [e \in Ids |-> IF e = 1 THEN "player" ELSE "none"]
  /\ pos = [e \in Ids |-> PlayerSpawn]
  /\ behaviorType = [e \in Ids |-> "none"]
  /\ aiState = [e \in Ids |-> "none"]
  /\ reward = [e \in Ids |-> 0]
  /\ level = [e \in Ids |-> IF e = 1 THEN 1 ELSE 0]
  /\ experienceToNext = [e \in Ids |-> IF e = 1 THEN InitialExperienceToNext ELSE 0]
  /\ max = [e \in Ids |-> IF e = 1 THEN PlayerHealth ELSE 0]
  /\ current = max
  /\ strength = [e \in Ids |-> IF e = 1 THEN PlayerStrength ELSE 0]
  /\ defense = [e \in Ids |-> IF e = 1 THEN PlayerDefense ELSE 0]
  /\ entitiesToAdd = <<>>
  /\ systems = <<>>
  /\ listening = FALSE
  /\ outOfOrder = FALSE

NextExperience == AddExperience

SpecExperience == InitExperience /\ [][NextExperience]_vars

\* The AI behaviours: the player (entity 1) and one enemy (entity 2) of any
\* behaviour, with ranges and patrol points chosen by whoever built its
\* AIComponent, are queued; then frames, movement input, the clock, and
\* holders of the component that declare the enemy dead
AIRanges == {<<20, 10>>, <<40, 35>>, <<10, 20>>}
PatrolRoutes == {<<>>, <<ArenaMax>>, <<0, ArenaMax>>}

InitAI ==
  /\ InitBlank
  /\ nextId = 3
  /\ kind = [e \in Ids |-> IF e = 1 THEN "player" ELSE IF e = 2 THEN "enemy" ELSE "none"]
  /\ \E p \in Positions, b \in Behaviors, rg \in AIRanges :
      \E route \in (IF b = "patrol" THEN PatrolRoutes ELSE {<<>>}) :
       /\ pos = [e \in Ids |-> IF e = 2 THEN p ELSE PlayerSpawn]
       /\ behaviorType = [e \in Ids |-> IF e = 2 THEN b ELSE "none"]
       /\ aiAggro = [e \in Ids |-> rg[1]]
       /\ aiAttack = [e \in Ids |-> rg[2]]
       /\ patrolPoints = [e \in Ids |-> IF e = 2 THEN route ELSE <<>>]
  /\ reward = [e \in Ids |-> IF e = 2 THEN 50 ELSE 0]
  /\ aiState = [e \in Ids |-> IF e = 2 THEN "idle" ELSE "none"]
  /\ level = [e \in Ids |-> IF e = 1 THEN 1 ELSE 0]
  /\ experienceToNext = [e \in Ids |-> IF e = 1 THEN InitialExperienceToNext ELSE 0]
  /\ max = [e \in Ids |-> IF e = 1 THEN PlayerHealth ELSE IF e = 2 THEN EnemyHealth ELSE 0]
  /\ current = max
  /\ strength = [e \in Ids |-> IF e = 1 THEN PlayerStrength
                                ELSE IF e = 2 THEN EnemyStrength ELSE 0]
  /\ defense = [e \in Ids |-> IF e = 1 THEN PlayerDefense
                               ELSE IF e = 2 THEN EnemyDefense ELSE 0]
  /\ entitiesToAdd = <<1, 2>>
  /\ systems = sortByPriority(<<"Movement", "Collision", "AI", "Combat">>)
  /\ listening = TRUE
  /\ outOfOrder = FALSE

NextAI ==
  \/ Tick
  \/ HandleMovementInput
  \/ SetStateDead
  \/ FrameStep

SpecAI == InitAI /\ [][NextAI]_vars

\* Two entities with a Transform and a circle collider each, built outside
\* the factories (setStatic and setTrigger at will), queued in a world with
\* the four systems, and the frames run
InitCollidersOn(spots, radii) ==
  /\ InitCore
  /\ InitNoPair
  /\ InitNoMovement
  /\ InitAIConfig
  /\ nextId = 3
  /\ \E k \in {"solid", "bare"} :
       kind = [e \in Ids |-> IF e = 1 THEN "solid" ELSE IF e = 2 THEN k ELSE "none"]
  /\ \E r1 \in radii, r2 \in radii :
       colRadius = [e \in Ids |-> IF e = 1 THEN r1 ELSE r2]
  /\ isStatic \in [Ids -> BOOLEAN]
  /\ isTrigger \in [Ids -> BOOLEAN]
  /\ \A e \in Ids : e > 2 => (~isStatic[e] /\ ~isTrigger[e])
  /\ \E p1 \in spots, p2 \in spots :
       pos = [e \in Ids |-> IF e = 1 THEN p1 ELSE IF e = 2 THEN p2 ELSE 0]
  /\ behaviorType = [e \in Ids |-> "none"]
  /\ aiState = [e \in Ids |-> "none"]
  /\ reward = [e \in Ids |-> 0]
  /\ level = [e \in Ids |-> 0]
  /\ experienceToNext = [e \in Ids |-> 0]
  /\ max = [e \in Ids |-> 0]
  /\ current = max
  /\ strength = [e \in Ids |-> 0]
  /\ defense = [e \in Ids |-> 0]
  /\ entitiesToAdd = <<1, 2>>
  /\ systems = sortByPriority(<<"Movement", "Collision", "AI", "Combat">>)
  /\ listening = TRUE
  /\ outOfOrder = FALSE

NextCollision ==
  \/ UpdateBegin
  \/ MovementUpdate
  \/ CollisionUpdate
  \/ AIBegin
  \/ CombatBegin
  \/ UpdateEnd

InitCollision == InitCollidersOn(Spots, RadiusChoices)

SpecCollision == InitCollision /\ [][NextCollision]_vars

\* The same world with colliders wider than a grid cell, at places up to two
\* grid cells apart
InitWide == InitCollidersOn(WideSpots, WideRadii)

SpecWide == InitWide /\ [][NextCollision]_vars

\* A world whose two entities may each be short of a component: the first
\* is a player, a player without Transform or a prop, the second an enemy or
\* an enemy without Combat; the four systems run over them
InitIncomplete ==
  /\ InitBlank
  /\ InitAIConfig
  /\ nextId = 3
  /\ \E k1 \in {"player", "playerNoTransform", "prop"}, k2 \in {"enemy", "enemyNoCombat"} :
       kind = [e \in Ids |-> IF e = 1 THEN k1 ELSE IF e = 2 THEN k2 ELSE "none"]
  /\ \E p \in Positions, b \in Behaviors :
       /\ pos = [e \in Ids |-> IF e = 2 THEN p ELSE PlayerSpawn]
       /\ behaviorType = [e \in Ids |-> IF e = 2 THEN b ELSE "none"]
  /\ reward = [e \in Ids |-> IF e = 2 THEN 50 ELSE 0]
  /\ aiState = [e \in Ids |-> IF e = 2 THEN "idle" ELSE "none"]
  /\ level = [e \in Ids |-> IF e = 1 /\ hasComponent(e, "Player") THEN 1 ELSE 0]
  /\ experienceToNext = [e \in Ids |-> IF e = 1 /\ hasComponent(e, "Player")
                                       THEN InitialExperienceToNext ELSE 0]
  /\ max = [e \in Ids |-> IF e = 1 THEN PlayerHealth ELSE IF e = 2 THEN EnemyHealth ELSE 0]
  /\ current = max
  /\ strength = [e \in Ids |-> IF hasComponent(e, "Combat")
                               THEN (IF e = 1 THEN PlayerStrength ELSE EnemyStrength)
                               ELSE 0]
  /\ defense = [e \in Ids |-> IF hasComponent(e, "Combat")
                              THEN (IF e = 1 THEN PlayerDefense ELSE EnemyDefense)
                              ELSE 0]
  /\ \E order \in {<<1, 2>>, <<2, 1>>} : entitiesToAdd = order
  /\ systems = sortByPriority(<<"Movement", "Collision", "AI", "Combat">>)
  /\ listening = TRUE
  /\ outOfOrder = FALSE

NextIncomplete ==
  \/ Tick
  \/ FrameStep

SpecIncomplete == InitIncomplete /\ [][NextIncomplete]_vars

\* checkCollision on its own: any two colliders of the shapes, sizes,
\* offsets, layers and masks at hand, anywhere on a small grid of points
InitNarrow ==
  /\ InitCore
  /\ InitColliders
  /\ InitPlain
  /\ nextId = 1
  /\ kind = [e \in Ids |-> "none"]
  /\ max = [e \in Ids |-> 0]
  /\ current = max
  /\ strength = [e \in Ids |-> 0]
  /\ defense = [e \in Ids |-> 0]
  /\ systems = <<>>
  /\ listening = FALSE
  /\ outOfOrder = FALSE
  /\ narrowA \in ColliderInputs
  /\ narrowB \in ColliderInputs
  /\ narrowLog = NoCheck
  /\ InitNoMovement

NextNarrow == CheckBothOrders

SpecNarrow == InitNarrow /\ [][NextNarrow]_vars

\* ------------------------------------- the enemy stored before the player
\* a World to which the enemy was added before the player: World.entities is
\* a Map, iterated in insertion order
InitEnemyFirst ==
  /\ InitBlank
  /\ InitAIConfig
  /\ nextId = 3
  /\ kind = [e \in Ids |-> IF e = 1 THEN "enemy" ELSE IF e = 2 THEN "player" ELSE "none"]
  /\ \E p \in Positions, r \in ExpRewards :
       /\ pos = [e \in Ids |-> IF e = 1 THEN p ELSE PlayerSpawn]
       /\ reward = [e \in Ids |-> IF e = 1 THEN r ELSE 0]
  /\ behaviorType = [e \in Ids |-> IF e = 1 THEN "aggressive" ELSE "none"]
  /\ aiState = [e \in Ids |-> IF e = 1 THEN "idle" ELSE "none"]
  /\ level = [e \in Ids |-> IF e = 2 THEN 1 ELSE 0]
  /\ experienceToNext = [e \in Ids |-> IF e = 2 THEN InitialExperienceToNext ELSE 0]
  /\ max = [e \in Ids |-> IF e = 2 THEN PlayerHealth ELSE IF e = 1 THEN EnemyHealth ELSE 0]
  /\ current = max
  /\ strength = [e \in Ids |-> IF e = 2 THEN PlayerStrength
                                ELSE IF e = 1 THEN EnemyStrength ELSE 0]
  /\ defense = [e \in Ids |-> IF e = 2 THEN PlayerDefense
                               ELSE IF e = 1 THEN EnemyDefense ELSE 0]
  /\ entitiesToAdd = <<1, 2>>
  /\ systems = sortByPriority(<<"Movement", "Collision", "AI", "Combat">>)
  /\ listening = TRUE
  /\ outOfOrder = FALSE

NextEnemyFirst ==
  \/ Tick
  \/ PlayerAttack
  \/ AttackRequest
  \/ FrameStep

SpecEnemyFirst == InitEnemyFirst /\ [][NextEnemyFirst]_vars

\* ------------------------------------------ two requests between flushes
\* A caller's two World calls for one entity, one after the other, with no
\* World.update between them: first is addEntity (createEntity is new Entity()
\* and the same push) or removeEntity, second is removeEntity, destroyEntity
\* or addEntity
twoRequests(first, second, e) ==
  /\ pc = "idle"
  /\ lifeLog = NoRequests
  /\ e \in Created
  /\ e \notin Range(entitiesToAdd) /\ e \notin Range(entitiesToRemove)
  /\ first = "addEntity" => ~getEntity(e)
  /\ entitiesToAdd' = IF "addEntity" \in {first, second}
                       THEN Append(entitiesToAdd, e) ELSE entitiesToAdd
  /\ entitiesToRemove' =
       IF "removeEntity" \in {first, second}
          \/ (second = "destroyEntity" /\ getEntity(e))
       THEN Append(entitiesToRemove, e) ELSE entitiesToRemove
  /\ active' = IF second = "destroyEntity" /\ getEntity(e)
               THEN [active EXCEPT ![e] = FALSE] ELSE active
  /\ lifeLog' = [called |-> TRUE, first |-> first, second |-> second, id |-> e]
  /\ attackLog' = NoAttack
  /\ UNCHANGED <<nextId, kind, current, max, strength, defense, lastAttackTime,
                 pos, rotation, vel, behaviorType, aiState, targetId, reward, level,
                 experience, experienceToNext, kills, statPoints>>
  /\ UNCHANGED <<entities, systems, listening, outOfOrder>>
  /\ UNCHANGED <<frameVars, now, keptHist>>
  /\ UNCHANGED <<expLog, aiConfig, busVars, colliderVars, aloneVars, deathLog,
                 collisionLog, currentPatrolIndex, spawnLog, apartVars>>

AddThenRemove == \E e \in Ids : twoRequests("addEntity", "removeEntity", e)
AddThenDestroy == \E e \in Ids : twoRequests("addEntity", "destroyEntity", e)
RemoveThenAdd == \E e \in Ids : twoRequests("removeEntity", "addEntity", e)

\* two enemies built by the factory; the first may already be queued
InitLifecycle ==
  /\ InitBlank
  /\ InitAIConfig
  /\ nextId = 3
  /\ kind = [e \in Ids |-> IF e \in {1, 2} THEN "enemy" ELSE "none"]
  /\ \E p \in Positions : pos = [e \in Ids |-> IF e = 1 THEN p ELSE 0]
  /\ \E b \in Behaviors :
       behaviorType = [e \in Ids |-> IF e \in {1, 2} THEN b ELSE "none"]
  /\ reward = [e \in Ids |-> 0]
  /\ aiState = [e \in Ids |-> IF e \in {1, 2} THEN "idle" ELSE "none"]
  /\ level = [e \in Ids |-> 0]
  /\ experienceToNext = [e \in Ids |-> 0]
  /\ max = [e \in Ids |-> IF e \in {1, 2} THEN EnemyHealth ELSE 0]
  /\ current = max
  /\ strength = [e \in Ids |-> IF e \in {1, 2} THEN EnemyStrength ELSE 0]
  /\ defense = [e \in Ids |-> IF e \in {1, 2} THEN EnemyDefense ELSE 0]
  /\ entitiesToAdd \in {<<>>, <<1>>}
  /\ systems = sortByPriority(<<"Movement", "Collision", "AI", "Combat">>)
  /\ listening = TRUE
  /\ outOfOrder = FALSE

NextLifecycle ==
  \/ AddThenRemove
  \/ AddThenDestroy
  \/ RemoveThenAdd
  \/ Tick
  \/ FrameStep

SpecLifecycle == InitLifecycle /\ [][NextLifecycle]_vars

\* ------------------------------------------------ the Game as it starts
\* Game.startNewGame: the dungeon's tiles are added first (entity 1 is the
\* tile under the cell it stands on, or an entity with a Transform and a
\* Health added before the player), then the player, then an enemy
InitInput ==
  /\ InitBlank
  /\ InitAIConfig
  /\ nextId = 4
  /\ \E k \in {"tile", "prop"}, p1 \in Positions, p3 \in Positions, r \in ExpRewards :
       /\ kind = [e \in Ids |-> IF e = 1 THEN k ELSE IF e = 2 THEN "player" ELSE "enemy"]
       /\ pos = [e \in Ids |-> IF e = 1 THEN p1 ELSE IF e = 2 THEN PlayerSpawn ELSE p3]
       /\ reward = [e \in Ids |-> IF e = 3 THEN r ELSE 0]
  /\ behaviorType = [e \in Ids |-> IF e = 3 THEN "aggressive" ELSE "none"]
  /\ aiState = [e \in Ids |-> IF e = 3 THEN "idle" ELSE "none"]
  /\ level = [e \in Ids |-> IF e = 2 THEN 1 ELSE 0]
  /\ experienceToNext = [e \in Ids |-> IF e = 2 THEN InitialExperienceToNext ELSE 0]
  /\ max = [e \in Ids |-> CASE kind[e] = "player" -> PlayerHealth
                             [] kind[e] = "enemy" -> EnemyHealth
                             [] kind[e] = "prop" -> PropHealth
                             [] OTHER -> 0]
  /\ current = max
  /\ strength = [e \in Ids |-> IF e = 2 THEN PlayerStrength
                                ELSE IF e = 3 THEN EnemyStrength ELSE 0]
  /\ defense = [e \in Ids |-> IF e = 2 THEN PlayerDefense
                               ELSE IF e = 3 THEN EnemyDefense ELSE 0]
  /\ entitiesToAdd = <<1, 2, 3>>
  /\ systems = sortByPriority(<<"Movement", "Collision", "AI", "Combat">>)
  /\ listening = TRUE
  /\ outOfOrder = FALSE

NextInput ==
  \/ Tick
  \/ PlayerAttack
  \/ FrameStep

SpecInput == InitInput /\ [][NextInput]_vars

\* Game.running: start() sets it, the game:over listener (gameOver) clears it;
\* game:over is emitted by the death handling of an entity with a Player
running == \A e \in Created : hasComponent(e, "Player") => diedCount[e] = 0

\* DungeonGenerator.getRandomWalkablePosition: a cell off the border
WalkablePositions == 1..(ArenaMax - 1)

\* the entities of the sequence that have an Enemy component
enemiesOf(list) == SelectSeq(list, LAMBDA e : hasComponent(e, "Enemy"))

\* Game.gameLoop calls updateEnemySpawning after world.update, before the next
\* input is read: no entity brought to health 0 by an input still waits for
\* CombatSystem
updatedSinceInput ==
  \A i \in 1..Len(entities) :
    (active[entities[i]] /\ Components(kind[entities[i]]) \cap {"Health"} # {})
      => ~isDead(current[entities[i]])

\* Game.updateEnemySpawning in the frame of the running game loop in which
\* enemySpawnTimer has reached ENEMY_SPAWN_INTERVAL: trySpawnEnemy.  The enemy
\* is spawned when Math.random() < enemySpawnRate.
TrySpawnEnemy ==
  /\ pc = "idle"
  /\ running
  /\ updatedSinceInput
  /\ LET enemyCount == Len(enemiesOf(getEntities))
         living == Len(SelectSeq(enemiesOf(getEntities),
                                 LAMBDA e : active[e] /\ current[e] > 0))
         seen(did) == [called |-> TRUE, enemyCount |-> enemyCount,
                       living |-> living, blocked |-> enemyCount >= maxEnemies,
                       spawned |-> did]
     IN IF enemyCount >= maxEnemies
        THEN /\ spawnLog' = seen(FALSE)
             /\ attackLog' = NoAttack
             /\ UNCHANGED <<entityVars, worldVars, frameVars, now, keptHist>>
        ELSE \/ /\ spawnLog' = seen(FALSE)
                /\ attackLog' = NoAttack
                /\ UNCHANGED <<entityVars, worldVars, frameVars, now, keptHist>>
             \/ /\ nextId <= MaxIds
                /\ spawnLog' = seen(TRUE)
                /\ \E p \in WalkablePositions, r \in ExpRewards :
                     addNewEntity("enemy", p, "aggressive", r)
  /\ UNCHANGED <<expLog, aiConfig, busVars, colliderVars, aloneVars, deathLog,
                 collisionLog, currentPatrolIndex, lifeLog, apartVars>>

\* Game.startNewGame with no initial enemy, then Game.start
InitSpawn ==
  /\ InitBlank
  /\ InitAIConfig
  /\ nextId = 2
  /\ kind = [e \in Ids |-> IF e = 1 THEN "player" ELSE "none"]
  /\ pos = [e \in Ids |-> PlayerSpawn]
  /\ reward = [e \in Ids |-> 0]
  /\ behaviorType = [e \in Ids |-> "none"]
  /\ aiState = [e \in Ids |-> "none"]
  /\ level = [e \in Ids |-> IF e = 1 THEN 1 ELSE 0]
  /\ experienceToNext = [e \in Ids |-> IF e = 1 THEN InitialExperienceToNext ELSE 0]
  /\ max = [e \in Ids |-> IF e = 1 THEN PlayerHealth ELSE 0]
  /\ current = max
  /\ strength = [e \in Ids |-> IF e = 1 THEN PlayerStrength ELSE 0]
  /\ defense = [e \in Ids |-> IF e = 1 THEN PlayerDefense ELSE 0]
  /\ entitiesToAdd = <<1>>
  /\ systems = sortByPriority(<<"Movement", "Collision", "AI", "Combat">>)
  /\ listening = TRUE
  /\ outOfOrder = FALSE

NextSpawn ==
  \/ Tick
  \/ PlayerAttack
  \/ FrameStep
  \/ TrySpawnEnemy

SpecSpawn == InitSpawn /\ [][NextSpawn]_vars

\* ------------------------------------------- a MovementComponent on its own
\* what the three methods leave alone
nonMovement == <<entityVars, worldVars, frameVars, now, histVars, expLog, aiConfig,
                 busVars, colliderVars, narrowVars, deathLog, collisionLog,
                 currentPatrolIndex, spawnLog, lifeLog, apartVars>>

\* the components of the vector that are integers are within the bound
Bounded(v) ==
  /\ v.x.k = "num" => Abs(v.x.v) <= MaxComponent
  /\ v.y.k = "num" => Abs(v.y.v) <= MaxComponent

\* MovementComponent.setVelocity
SetVelocity ==
  \E v \in VectorInputs :
    /\ Exact(v, mvMaxSpeed)
    /\ mvVelocity' = limitVector(v, mvMaxSpeed)
    /\ mvCalled' = "setVelocity"
    /\ UNCHANGED <<mvMaxSpeed, nonMovement>>

\* MovementComponent.addVelocity
AddVelocity ==
  \E delta \in VectorInputs :
    /\ Exact(add(mvVelocity, delta), mvMaxSpeed)
    /\ Bounded(add(mvVelocity, delta))
    /\ mvVelocity' = limitVector(add(mvVelocity, delta), mvMaxSpeed)
    /\ mvCalled' = "addVelocity"
    /\ UNCHANGED <<mvMaxSpeed, nonMovement>>

\* MovementComponent.moveInDirection; push is this.acceleration * deltaTime
MoveInDirection ==
  \E direction \in VectorInputs, push \in Pushes :
    /\ Exact(direction, Num(1))
    /\ LET acceleration == multiply(normalize(direction), push)
       IN /\ Exact(add(mvVelocity, acceleration), mvMaxSpeed)
          /\ Bounded(add(mvVelocity, acceleration))
          /\ mvVelocity' = limitVector(add(mvVelocity, acceleration), mvMaxSpeed)
    /\ mvCalled' = "moveInDirection"
    /\ UNCHANGED <<mvMaxSpeed, nonMovement>>

\* new MovementComponent(speed): velocity zero, maxSpeed = speed
InitMovement ==
  /\ InitCore
  /\ InitColliders
  /\ InitNoPair
  /\ InitPlain
  /\ nextId = 1
  /\ kind = [e \in Ids |-> "none"]
  /\ max = [e \in Ids |-> 0]
  /\ current = max
  /\ strength = [e \in Ids |-> 0]
  /\ defense = [e \in Ids |-> 0]
  /\ systems = <<>>
  /\ listening = FALSE
  /\ outOfOrder = FALSE
  /\ mvVelocity = zero
  /\ mvMaxSpeed \in MaxSpeeds
  /\ mvCalled = "none"

NextMovement == SetVelocity \/ AddVelocity \/ MoveInDirection

SpecMovement == InitMovement /\ [][NextMovement]_vars

\* The EventBus on its own: callbacks are registered and removed, events
\* are emitted, and one callback emits a second event from inside its call
InitBusOnly ==
  /\ InitWorld

NextBus ==
  \/ On
  \/ Once
  \/ Off
  \/ Emit
  \/ CallListener
  \/ TakeOnceListeners
  \/ EmitReturn

SpecBus == InitBusOnly /\ [][NextBus]_vars

\* The EventBus with callbacks that call the bus themselves: while an emit
\* dispatches, a callback may emit the same event again, subscribe a further
\* callback or unsubscribe one
\* The typed EventBus on its own: on and once were called for some of the
\* handlers, in the order of their numbers, and the event type is emitted
InitTyped ==
  /\ InitEmptyWorld
  /\ InitBus
  /\ InitNoPool
  /\ typedStack = <<>>
  /\ typedInvoked = [cb \in Callbacks |-> 0]
  /\ \E how \in [Callbacks -> {"none", "on", "once"}] :
       LET inOrder == [i \in 1..MaxCallbacks |-> i]
           registered == SelectSeq(inOrder, LAMBDA cb : how[cb] # "none")
       IN typedListeners =
            [i \in 1..Len(registered) |->
               [handler |-> registered[i], once |-> how[registered[i]] = "once"]]

NextTyped ==
  \/ TypedEmit
  \/ TypedCall
  \/ TypedCallThrowing
  \/ TypedCallEmitting
  \/ TypedReturn

SpecTyped == InitTyped /\ [][NextTyped]_vars

\* An ObjectPool on its own: new ObjectPool(factory, reset, initialSize,
\* maxSize), and its methods are called
InitialSizes == {0, 1}
MaxSizes == {0, 1, 2}

InitPool ==
  /\ InitEmptyWorld
  /\ InitBus
  /\ InitNoTypedBus
  /\ \E initialSize \in InitialSizes :
       /\ available = [i \in 1..initialSize |-> i]
       /\ created = initialSize
  /\ maxSize \in MaxSizes
  /\ inUse = <<>>
  /\ held = {}
  /\ poolLog = NoPoolCall

NextPool ==
  \/ Acquire
  \/ Release
  \/ ReleaseAll
  \/ Clear
  \/ Prewarm

SpecPool == InitPool /\ [][NextPool]_vars

\* on and once were called for event "a" for some of the callbacks, in the
\* order of their numbers
InitReentrant ==
  /\ InitEmptyWorld
  /\ InitNoTypedBus
  /\ InitNoPool
  /\ \E how \in [Callbacks -> {"none", "on", "once"}] :
       \* the callbacks are those that do not emit event "b"; they are
       \* alike: those left unregistered are the last
       /\ \A c \in Emitters : how[c] = "none"
       /\ \A c \in Callbacks \ Emitters :
            (how[c] = "none" /\ c < MaxCallbacks) => how[c + 1] = "none"
       /\ LET inOrder == [i \in 1..MaxCallbacks |-> i]
              with(h) == SelectSeq(inOrder, LAMBDA cb : how[cb] = h)
          IN
          /\ busListeners = [ev \in Events |-> IF ev = "a" THEN with("on") ELSE <<>>]
          /\ busOnce = [ev \in Events |-> IF ev = "a" THEN with("once") ELSE <<>>]
          /\ busRegistered =
               [ev \in Events |->
                  IF ev = "a" THEN SelectSeq(inOrder, LAMBDA cb : how[cb] # "none")
                  ELSE <<>>]
  /\ busStack = <<>>
  /\ busExpected = <<>>
  /\ busCalled = <<>>
  /\ onceLog = [cb \in Callbacks |-> [calls |-> 0, removed |-> FALSE]]

NextReentrant ==
  \/ Off
  \/ Unsubscribe
  \/ Emit
  \/ CallListener
  \/ CallListenerEmitting
  \/ CallListenerSubscribing
  \/ CallListenerUnsubscribing
  \/ TakeOnceListeners
  \/ EmitReturn

SpecReentrant == InitReentrant /\ [][NextReentrant]_vars

\* ==================================================================== claims
\* A step that begins a World.update, one inside it, one that ends it
BeginsUpdate == pc = "idle" /\ pc' # "idle"
InUpdate == pc # "idle" /\ pc' # "idle"
EndsUpdate == pc # "idle" /\ pc' = "idle"
\* all systems of this World.update have run, the final flush has not
AfterLastSystem == pc = "systems" /\ sysIdx > Len(systems)
\* the order the specification requires
SystemOrder == <<"Movement", "Collision", "AI", "Combat">>

\* C1: every World.update applies the queued additions and then the queued
\* removals, takes one snapshot of the entities active at that moment, calls
\* every registered system exactly once in ascending priority with that same
\* snapshot, and then applies the queued additions and removals again.
C1_UpdateOrder ==
  [][ /\ BeginsUpdate =>
           /\ Range(entities') =
                (Range(entities) \cup Range(entitiesToAdd)) \ Range(entitiesToRemove)
           /\ entitiesToAdd' = <<>>
           /\ entitiesToRemove' = <<>>
           /\ Range(snapshot') = {e \in Range(entities') : active[e]}
           /\ ran' = <<>>
      /\ InUpdate =>
           /\ snapshot' = snapshot
           /\ entities' = entities
           /\ \/ ran' = ran
              \/ /\ Len(ran) < Len(systems)
                 /\ ran' = Append(ran, systems[Len(ran) + 1])
      /\ EndsUpdate =>
           /\ ran = systems
           /\ \A i, j \in 1..Len(systems) :
                i < j => priority(systems[i]) <= priority(systems[j])
           /\ Range(entities') =
                (Range(entities) \cup Range(entitiesToAdd)) \ Range(entitiesToRemove)
           /\ entitiesToAdd' = <<>>
           /\ entitiesToRemove' = <<>>
    ]_vars

\* C1's case: all four systems have run on a non-empty snapshot and both
\* queues hold an entity, one of them in both, for the final flush
C1_Witness ==
  /\ AfterLastSystem
  /\ ran = systems
  /\ Len(ran) = 4
  /\ snapshot # <<>>
  /\ \E id \in Range(entitiesToAdd) : id \in Range(entitiesToRemove)

\* C2: for any order of the addSystem calls, every World.update runs Movement,
\* then Collision, then AI, then Combat, and a system's pass over the snapshot
\* has no entity left when the next system's pass starts.
C2_SystemOrder ==
  [][ /\ (ran' # ran /\ ran' # <<>>) =>
           /\ queue = <<>>
           /\ Len(ran') <= Len(SystemOrder)
           /\ ran' = SubSeq(SystemOrder, 1, Len(ran'))
      /\ EndsUpdate => ran = SystemOrder
    ]_vars

\* C2's case: the systems were registered out of priority order and a
\* World.update has run all of them
C2_Witness == outOfOrder /\ AfterLastSystem /\ ran = SystemOrder

\* C3: over any sequence of World.update calls at most one entity:died and at
\* most one enemy:killed event is emitted for the same entity id.
C3_DeathHandledOnce == \A e \in Ids : diedCount[e] <= 1 /\ killedCount[e] <= 1

\* C3's case: a later World.update scans for deaths while an enemy handled
\* before is still stored, inactive, with health <= 0
C3_Witness ==
  \E e \in Ids :
    /\ diedCount[e] = 1
    /\ killedCount[e] = 1
    /\ ~active[e]
    /\ current[e] <= 0
    /\ e \in Range(entities)
    /\ e \notin Range(snapshot)
    /\ pc = "Combat"

\* C4: an attack request changes the target's health and resets the attacker's
\* lastAttackTime only if now - lastAttackTime >= attackCooldown holds for the
\* attacker when it is handled; otherwise it changes nothing.  lastAttackTime
\* moves only by an honoured attack, so two honoured attacks of one attacker
\* are at least attackCooldown apart, whoever requested them.
C4_AttackOnlyAfterCooldown ==
  [][ /\ attackLog'.attacker # NoEntity =>
           LET a == attackLog'.attacker
               elapsed == now - lastAttackTime[a] >= attackCooldown(a)
           IN /\ attackLog'.dealt => (elapsed /\ lastAttackTime'[a] = now)
              /\ ~elapsed => ~attackLog'.dealt
              /\ ~attackLog'.dealt =>
                   (current' = current /\ lastAttackTime' = lastAttackTime)
      /\ \A e \in Ids :
           lastAttackTime'[e] # lastAttackTime[e] =>
             (attackLog'.dealt /\ attackLog'.attacker = e)
    ]_vars

\* C4's case: a second honoured attack of an attacker, a cooldown after its
\* previous one
C4_Witness ==
  /\ attackLog.dealt
  /\ attackLog.prevLast > 0
  /\ attackLog.time - attackLog.prevLast >= attackCooldown(attackLog.attacker)

\* C5: no entity leaves the World while systems run.  After removeEntity(id) or
\* destroyEntity(id) during a system's update the snapshot is what it was and
\* getEntity(id) still returns the entity, until the flush that ends this
\* World.update; after that flush getEntity(id) returns null.
C5_RemovalDeferred ==
  [][ /\ InUpdate =>
           /\ snapshot' = snapshot
           /\ \A id \in Ids : id \in Range(entities) => id \in Range(entities')
      /\ EndsUpdate =>
           \A id \in Range(entitiesToRemove) : id \notin Range(entities')
    ]_vars

\* C5's case: a system's pass is under way and an entity of its snapshot, still
\* stored, is queued for removal
C5_Witness ==
  /\ pc \in {"AI", "Combat"}
  /\ \E id \in Range(entitiesToRemove) :
       id \in Range(snapshot) /\ id \in Range(entities)

\* C6: an entity from createEntity or addEntity is stored (and so returned by
\* getEntity, getEntities, getActiveEntities, queryEntities, findEntity) and
\* passed to systems only from the next flush point on: the stored entities
\* change at flush points only, a snapshot holds stored entities only, a flush
\* stores every queued entity that is not queued for removal as well, and the
\* snapshot taken after a flush holds every stored entity that is active.
C6_AdditionDeferred ==
  [][ /\ (~BeginsUpdate /\ ~EndsUpdate) => entities' = entities
      /\ \A id \in Range(snapshot') : id \in Range(entities')
      /\ (BeginsUpdate \/ EndsUpdate) =>
           \A id \in Range(entitiesToAdd) \ Range(entitiesToRemove) :
             id \in Range(entities')
      /\ BeginsUpdate =>
           \A id \in Range(entities') : active[id] => id \in Range(snapshot')
    ]_vars

\* C6's case: systems run while a created entity waits in the queue, neither
\* stored nor in the snapshot
C6_Witness ==
  /\ pc \in {"AI", "Combat"}
  /\ \E id \in Range(entitiesToAdd) :
       id \notin Range(entities) /\ id \notin Range(snapshot)

\* C7: for every HealthComponent, 0 <= current <= max after every takeDamage
\* and every heal, for every amount, negative and large ones included.
C7_HealthWithinBounds ==
  \A e \in Created :
    hasComponent(e, "Health") => (0 <= current[e] /\ current[e] <= max[e])

\* C8: every active entity of the snapshot with a Health component and
\* current <= 0 when CombatSystem's scan begins has had its death handled
\* (entity:died emitted, marked inactive) when the systems of that World.update
\* have run, whichever other components it has or lacks.
C8_DeadAtScanHandled ==
  AfterLastSystem => \A e \in deadAtScan : e \in frameDied /\ ~active[e]

\* C9: an honoured attack of an AI entity has reduced the target's health when
\* AISystem goes on to its next entity, and a target it brings to health <= 0
\* has its death handled in CombatSystem's pass of the same World.update.
C9_AIKillHandledSameUpdate ==
  [][ /\ (attackLog'.dealt /\ attackLog'.byAI) =>
           current'[attackLog'.target] =
             MaxOf(0, current[attackLog'.target] - attackLog'.damage)
      /\ EndsUpdate => aiKilled \subseteq frameDied
    ]_vars

\* C10: the damage of an honoured attack is max(1, raw - target defense) with
\* raw = attacker strength + one of 0..4 (a target without a Combat component
\* has no defense to subtract), hence at least 1.
C10_DamageAtLeastOne ==
  attackLog.dealt =>
    /\ attackLog.raw - strength[attackLog.attacker] \in 0..(VarianceRange - 1)
    /\ attackLog.damage = MaxOf(1, attackLog.raw - defense[attackLog.target])
    /\ attackLog.damage >= 1


\* C11: addExperience(amount) with experience + amount >= experienceToNext
\* raises level by exactly 1, carries the remainder (experience = old
\* experience + amount - old experienceToNext), sets experienceToNext to
\* floor(1.5 * old experienceToNext) and returns true; otherwise it only adds
\* amount to experience and returns false.
C11_AddExperience ==
  [][ (expLog'.called
         /\ (expLog' # expLog \/ experience' # experience \/ level' # level)) =>
        LET p == expLog'.player
            amount == expLog'.amount
        IN IF experience[p] + amount >= experienceToNext[p]
           THEN /\ level'[p] = level[p] + 1
                /\ experience'[p] = experience[p] + amount - experienceToNext[p]
                /\ 2 * experienceToNext'[p] <= 3 * experienceToNext[p]
                /\ 3 * experienceToNext[p] < 2 * experienceToNext'[p] + 2
                /\ expLog'.returned
           ELSE /\ level'[p] = level[p]
                /\ experience'[p] = experience[p] + amount
                /\ experienceToNext'[p] = experienceToNext[p]
                /\ ~expLog'.returned ]_vars

\* the scenario of the specification: 95 of 100, 10 gained, 5 carried, 150 needed
C11_Witness ==
  /\ expLog.called /\ expLog.returned /\ expLog.amount = 10
  /\ experience[expLog.player] = 5
  /\ experienceToNext[expLog.player] = 150
  /\ level[expLog.player] = 2

\* AISystem.processEntity runs for entity e in this step
Processes(e) == pc = "AI" /\ queue # <<>> /\ Head(queue) = e /\ queue' = Tail(queue)
\* the step emits a combat:attack request (e, p) from AISystem
Requests(e, p) == attackLog'.attacker = e /\ attackLog'.target = p /\ attackLog'.byAI
\* no combat:attack request of e in this step
NoRequest(e) == attackLog'.attacker # e
\* the cooldown of e's Combat component has elapsed
CooldownElapsed(e) == hasComponent(e, "Combat") /\ now - lastAttackTime[e] >= attackCooldown(e)
\* what the aggressive behaviour leaves for e with the player p at distance d
AggressiveOutcome(e, p, d) ==
  /\ d > aiAggro[e] =>
       aiState'[e] = "idle" /\ targetId'[e] = NoEntity /\ vel'[e] = 0 /\ NoRequest(e)
  /\ (d <= aiAggro[e] /\ d <= aiAttack[e]) =>
       /\ aiState'[e] = "attack" /\ targetId'[e] = p /\ vel'[e] = 0
       /\ Requests(e, p) <=> CooldownElapsed(e)
       /\ NoRequest(e) <=> ~CooldownElapsed(e)
  /\ (aiAttack[e] < d /\ d <= aiAggro[e]) =>
       aiState'[e] = "chase" /\ targetId'[e] = p /\ NoRequest(e)

\* C12: after AISystem processes a non-dead aggressive entity with a player at
\* distance d: beyond aggroRange it is idle with no target and zero velocity;
\* within aggroRange and attackRange it is in state attack, targets the player,
\* stands still and requests an attack exactly when its Combat cooldown has
\* elapsed; between attackRange and aggroRange it chases the player and
\* requests no attack.
C12_AggressiveBehavior ==
  [][ \A e \in Ids :
        (Processes(e) /\ behaviorType[e] = "aggressive" /\ aiState[e] # "dead"
           /\ playerEntity # NoEntity) =>
          AggressiveOutcome(e, playerEntity,
                            Abs(pos[e] - pos[playerEntity]) * TileSize) ]_vars

\* an aggressive entity that had a target has just gone idle and lost it
C12_Witness ==
  /\ behaviorType[2] = "aggressive" /\ aiState[2] = "idle" /\ targetId[2] = NoEntity
  /\ playerEntity = 1 /\ Abs(pos[2] - pos[1]) * TileSize > aiAggro[2]
  /\ lastAttackTime[2] > 0
  /\ ran = <<"Movement", "Collision", "AI">> /\ queue = <<>>

\* AISystem processes the non-dead ranged entity e with a player in this step
ProcessesRanged(e) ==
  /\ Processes(e) /\ behaviorType[e] = "ranged" /\ aiState[e] # "dead"
  /\ playerEntity # NoEntity

\* C13 as stated: after AISystem processes a non-dead ranged entity with the
\* player within aggro range, below the standoff distance 0.8 * attackRange it
\* flees, between the standoff distance and attackRange it chases, at
\* attackRange it attacks with zero velocity and requests an attack if the
\* cooldown has elapsed; with the player outside aggro range it is idle.
C13_AsStated ==
  [][ \A e \in Ids : ProcessesRanged(e) =>
        LET p == playerEntity
            d == Abs(pos[e] - pos[p]) * TileSize
        IN /\ d > aiAggro[e] => aiState'[e] = "idle"
           /\ (d <= aiAggro[e] /\ 10 * d < 8 * aiAttack[e]) => aiState'[e] = "flee"
           /\ (d <= aiAggro[e] /\ 10 * d > 8 * aiAttack[e] /\ d < aiAttack[e]) =>
                aiState'[e] = "chase"
           /\ (d <= aiAggro[e] /\ d = aiAttack[e]) =>
                /\ aiState'[e] = "attack" /\ vel'[e] = 0
                /\ CooldownElapsed(e) => Requests(e, p) ]_vars

\* C13, amended: after AISystem processes a non-dead ranged entity with the
\* player within aggro range, below the standoff distance 0.8 * attackRange it
\* flees; from the standoff distance up to attackRange, both included, it
\* attacks with zero velocity and requests an attack exactly when the cooldown
\* has elapsed; beyond attackRange it chases.  With the player outside aggro
\* range it is idle.
C13_RangedBehavior ==
  [][ \A e \in Ids : ProcessesRanged(e) =>
        LET p == playerEntity
            d == Abs(pos[e] - pos[p]) * TileSize
        IN /\ d > aiAggro[e] => aiState'[e] = "idle" /\ NoRequest(e)
           /\ (d <= aiAggro[e] /\ 10 * d < 8 * aiAttack[e]) =>
                aiState'[e] = "flee" /\ NoRequest(e)
           /\ (d <= aiAggro[e] /\ 10 * d >= 8 * aiAttack[e] /\ d <= aiAttack[e]) =>
                /\ aiState'[e] = "attack" /\ vel'[e] = 0
                /\ Requests(e, p) <=> CooldownElapsed(e)
                /\ NoRequest(e) <=> ~CooldownElapsed(e)
           /\ (d <= aiAggro[e] /\ d > aiAttack[e]) =>
                aiState'[e] = "chase" /\ NoRequest(e) ]_vars

\* a ranged entity attacks from strictly inside its attack range
C13_Witness ==
  /\ behaviorType[2] = "ranged" /\ aiState[2] = "attack" /\ playerEntity = 1
  /\ 10 * Abs(pos[2] - pos[1]) * TileSize > 8 * aiAttack[2]
  /\ Abs(pos[2] - pos[1]) * TileSize < aiAttack[2]
  /\ attackLog.attacker = 2 /\ attackLog.dealt /\ attackLog.byAI

\* C14: for a patrol entity with n >= 1 waypoints that AISystem processes: in
\* a frame with the player outside aggro range its state is patrol and its
\* waypoint index stays within 0..n-1, advancing by exactly one (from the last
\* waypoint back to the first) exactly when the entity is less than the
\* arrival radius of 10 units away from the current waypoint; in a frame with
\* the player within aggro range the index is unchanged and state, target and
\* attack request are those of the aggressive behaviour.
C14_PatrolBehavior ==
  [][ \A e \in Ids :
        (Processes(e) /\ behaviorType[e] = "patrol" /\ aiState[e] # "dead"
           /\ playerEntity # NoEntity /\ Len(patrolPoints[e]) >= 1) =>
          LET p == playerEntity
              n == Len(patrolPoints[e])
              i == currentPatrolIndex[e]
              d == Abs(pos[e] - pos[p]) * TileSize
              dw == Abs(pos[e] - patrolPoints[e][i + 1]) * TileSize
          IN /\ currentPatrolIndex'[e] \in 0..(n - 1)
             /\ d > aiAggro[e] =>
                  /\ aiState'[e] = "patrol"
                  /\ NoRequest(e)
                  /\ IF dw < 10
                     THEN currentPatrolIndex'[e] = (IF i = n - 1 THEN 0 ELSE i + 1)
                     ELSE currentPatrolIndex'[e] = i
             /\ d <= aiAggro[e] =>
                  /\ currentPatrolIndex'[e] = i
                  /\ AggressiveOutcome(e, p, d) ]_vars

\* a patrolling entity has reached the first of two waypoints and turned to
\* the second while the player stays outside aggro range
C14_Witness ==
  /\ behaviorType[2] = "patrol" /\ aiState[2] = "patrol" /\ playerEntity = 1
  /\ Len(patrolPoints[2]) = 2 /\ currentPatrolIndex[2] = 1
  /\ pos[2] = patrolPoints[2][1]
  /\ Abs(pos[2] - pos[1]) * TileSize > aiAggro[2]
  /\ ran = <<"Movement", "Collision", "AI">> /\ queue = <<>>

\* a step of AISystem.update: its start or the processing of one entity
AIStep == pc = "AI" \/ (pc = "systems" /\ sysIdx <= Len(systems) /\ systems[sysIdx] = "AI")

\* C15: once an entity's AI state is dead, AISystem never again changes its
\* state, target, velocity or rotation and never emits an attack request for
\* it, in any later frame and whatever the player does.
C15_DeadNeverThinks ==
  [][ \A e \in Ids :
        (AIStep /\ aiState[e] = "dead") =>
          /\ aiState'[e] = "dead"
          /\ targetId'[e] = targetId[e]
          /\ vel'[e] = vel[e]
          /\ rotation'[e] = rotation[e]
          /\ currentPatrolIndex'[e] = currentPatrolIndex[e]
          /\ NoRequest(e) ]_vars

\* AISystem has just gone through a dead entity that still targets the
\* player, with the player in attack range and the cooldown elapsed
C15_Witness ==
  /\ aiState[2] = "dead" /\ active[2] /\ 2 \in Range(snapshot)
  /\ ran = <<"Movement", "Collision", "AI">> /\ queue = <<>>
  /\ playerEntity = 1 /\ targetId[2] = 1
  /\ Abs(pos[2] - pos[1]) * TileSize <= aiAttack[2]
  /\ Abs(pos[2] - pos[1]) * TileSize <= aiAggro[2]
  /\ now - lastAttackTime[2] >= attackCooldown(2)

\* C16: when an entity with an AI component is found with health <= 0 and
\* death-handled, the system that detects it sets its AI state to dead, once;
\* AISystem itself never assigns the state dead.
C16_DeathSetsStateDead ==
  [][ /\ \A e \in Ids :
           (e \in frameDied' /\ e \notin frameDied /\ hasComponent(e, "AI")) =>
             (aiState[e] # "dead" /\ aiState'[e] = "dead")
      /\ AIStep => \A e \in Ids : aiState'[e] = "dead" => aiState[e] = "dead" ]_vars

\* the first sequence is an initial part of the second
IsPrefix(s, t) == Len(s) <= Len(t) /\ SubSeq(t, 1, Len(s)) = s

\* C17: EventBus.emit(event) calls every listener registered for the event
\* before it returns, in the order in which they were registered, whether
\* with on or with once; an emit performed inside a listener is dispatched
\* completely before the outer emit calls its next listener.  At every moment
\* the callbacks an emit has called are an initial part of the registration
\* order, the whole of it when the emit is about to return, and while a
\* nested emit is under way the outer emit calls nothing.
C17_RegistrationOrder ==
  /\ [](\A i \in 1..Len(busStack) :
          /\ IsPrefix(busCalled[i], busExpected[i])
          /\ (i = Len(busStack) /\ busStack[i].phase = "once"
                /\ busStack[i].listenersCopy = <<>>)
               => busCalled[i] = busExpected[i])
  /\ [][\A i \in 1..Len(busStack) :
          i < Len(busStack) => (Len(busCalled') >= i /\ busCalled'[i] = busCalled[i])]_vars

\* ---- CollisionSystem
\* the step is a CollisionSystem.update
CollisionStep ==
  /\ pc = "systems" /\ sysIdx <= Len(systems) /\ systems[sysIdx] = "Collision"
  /\ sysIdx' = sysIdx + 1

\* the entities CollisionSystem.update works on, and its pairs
Collidable(e) == e \in Range(snapshot) /\ hasAllComponents(e, {"Transform", "Collider"})
CollidablePair(a, b) == Collidable(a) /\ Collidable(b) /\ a # b

\* the two circles overlap: their centres are closer than the sum of the radii
CirclesOverlap(a, b) == Abs(pos[a] - pos[b]) * TileSize < colRadius[a] + colRadius[b]

\* the pair is examined (the two are in the same or in adjacent grid cells)
\* and the narrow phase reports it
Reported(a, b) ==
  /\ Abs(getCellKey(pos[a]) - getCellKey(pos[b])) <= 1
  /\ layer(b) \in mask(a) /\ layer(a) \in mask(b)
  /\ CirclesOverlap(a, b)

\* the entity is moved by the step, by so many units along the line
MovedBy(e, units) == (pos'[e] - pos[e]) * TileSize = units

\* C18: for every pair of entities the narrow phase reports as overlapping, a
\* collision event with both ids and the midpoint of their positions is
\* emitted, also when a collider is a trigger or both are static, and before
\* any position is changed for the pair: its listeners see both entities at
\* the positions they had before the resolution.
C18_EventBeforeResolution ==
  [][CollisionStep =>
       \A a \in Ids, b \in Ids :
         (CollidablePair(a, b) /\ Reported(a, b)) =>
           \E i \in 1..Len(collisionLog') :
             LET ev == collisionLog'[i] IN
               /\ {ev.entityA, ev.entityB} = {a, b}
               /\ 2 * ev.position = (pos[a] + pos[b]) * TileSize
               /\ ev.seenA = pos[ev.entityA]
               /\ ev.seenB = pos[ev.entityB]]_vars

\* a collision event was emitted for a pair that was then pushed apart
C18_Witness ==
  /\ collisionLog # <<>>
  /\ \E i \in 1..Len(collisionLog) :
       /\ pos[collisionLog[i].entityA] # collisionLog[i].seenA
       /\ pos[collisionLog[i].entityB] # collisionLog[i].seenB

\* C19: CollisionSystem never changes the position of an entity whose collider
\* is static, and it changes no position at all for an overlapping pair in
\* which either collider is a trigger, both colliders are static, or the two
\* centres coincide.
C19_StaticAndTriggerStay ==
  [][CollisionStep =>
       /\ \A e \in Ids : (Collidable(e) /\ isStatic[e]) => pos'[e] = pos[e]
       /\ \A a \in Ids, b \in Ids :
            (/\ CollidablePair(a, b)
             /\ CirclesOverlap(a, b)
             /\ \/ isTrigger[a] \/ isTrigger[b]
                \/ isStatic[a] /\ isStatic[b]
                \/ pos[a] = pos[b])
            => (pos'[a] = pos[a] /\ pos'[b] = pos[b])]_vars

\* a static collider stayed where the event saw it while the dynamic one of
\* the pair was pushed away
C19_Witness ==
  \E i \in 1..Len(collisionLog) :
    LET ev == collisionLog[i] IN
      /\ isStatic[ev.entityA] /\ ~isStatic[ev.entityB]
      /\ pos[ev.entityA] = ev.seenA
      /\ pos[ev.entityB] # ev.seenB

\* what C20 says of the pair (a, b) after the update, a on the left of b or
\* on its right: the centres are the sum of the radii apart; two dynamic
\* colliders have each moved half the overlap, away from each other; with
\* one static collider the dynamic one has moved the whole overlap
Separated(a, b) ==
  LET overlap == colRadius[a] + colRadius[b] - Abs(pos[a] - pos[b]) * TileSize
      away == IF pos[a] < pos[b] THEN -1 ELSE 1
  IN /\ Abs(pos'[a] - pos'[b]) * TileSize = colRadius[a] + colRadius[b]
     /\ (~isStatic[a] /\ ~isStatic[b]) =>
          (MovedBy(a, away * (overlap \div 2)) /\ MovedBy(b, (-away) * (overlap \div 2))
           /\ overlap % 2 = 0)
     /\ (isStatic[a] /\ ~isStatic[b]) => (MovedBy(a, 0) /\ MovedBy(b, (-away) * overlap))
     /\ (~isStatic[a] /\ isStatic[b]) => (MovedBy(b, 0) /\ MovedBy(a, away * overlap))

\* C20 as the specification states it: after CollisionSystem.update on any
\* two overlapping non-trigger circle colliders with distinct centres, the
\* centres are the sum of the radii apart
C20_AsStated ==
  [][CollisionStep =>
       \A a \in Ids, b \in Ids :
         (/\ CollidablePair(a, b)
          /\ CirclesOverlap(a, b)
          /\ ~isTrigger[a] /\ ~isTrigger[b]
          /\ pos[a] # pos[b])
         => Separated(a, b)]_vars

\* C20: after CollisionSystem.update on two non-trigger circle colliders with
\* distinct centres that the narrow phase reports as overlapping and that are
\* not both static, the distance between the centres equals the sum of the
\* radii: two dynamic colliders have each moved by half of the overlap, in
\* opposite directions along the line joining the centres; with exactly one
\* static, only the dynamic one has moved, by the whole overlap.
C20_Separation ==
  [][CollisionStep =>
       \A a \in Ids, b \in Ids :
         (/\ CollidablePair(a, b)
          /\ Reported(a, b)
          /\ ~isTrigger[a] /\ ~isTrigger[b]
          /\ pos[a] # pos[b]
          /\ ~(isStatic[a] /\ isStatic[b]))
         => Separated(a, b)]_vars

\* two dynamic colliders were pushed apart, each from where the event saw it,
\* and now touch
C20_Witness ==
  \E i \in 1..Len(collisionLog) :
    LET ev == collisionLog[i] IN
      /\ ~isStatic[ev.entityA] /\ ~isStatic[ev.entityB]
      /\ pos[ev.entityA] # ev.seenA
      /\ pos[ev.entityB] # ev.seenB
      /\ Abs(pos[ev.entityA] - pos[ev.entityB]) * TileSize
           = colRadius[ev.entityA] + colRadius[ev.entityB]

\* ---- the narrow phase
\* C21: checkCollision(A, B) = checkCollision(B, A) for every pair of
\* colliders, whatever their shapes, offsets, layers and masks, and a pair is
\* reported only if A's mask contains B's layer and B's mask contains A's layer.
C21_CheckCollisionSymmetric ==
  narrowLog.called =>
    /\ narrowLog.ab = narrowLog.ba
    /\ narrowLog.ab => (narrowB.layer \in narrowA.mask /\ narrowA.layer \in narrowB.mask)

\* a rectangle and an offset circle with different masks were checked in both
\* orders and reported
C21_Witness ==
  /\ narrowLog.called /\ narrowLog.ab
  /\ narrowA.shape = "rectangle" /\ narrowB.shape = "circle"
  /\ narrowB.offsetX # 0
  /\ narrowA.mask # narrowB.mask

\* ---- incomplete entities
\* C22: World.update never raises an error because of the components an
\* entity has or lacks: each system skips the entities that lack a component
\* it needs and the frame runs to completion.
C22_NoErrorFromMissingComponent == pc # "error"

\* ---- death handling
\* the step is the death handling of e: the turn of CombatSystem's scan that
\* finds e dead
DeathStep(e) ==
  /\ pc = "Combat" /\ queue # <<>> /\ Head(queue) = e
  /\ isDead(current[e])
  /\ queue' = Tail(queue)

\* the names of the logged events but the UI notification
EventNames(log) ==
  LET told == SelectSeq(log, LAMBDA ev : ev.name # "ui:notification")
  IN [i \in 1..Len(told) |-> told[i].name]

\* C23 as the specification states it: during the death handling of one
\* entity the events are emitted in this order: entity:died; then, if it is an
\* Enemy, enemy:killed, the experience-gained event and, if the player gained
\* a level, player:levelup; then, if it is the Player, game:over.  The
\* entity's active flag becomes false only after all of these: every listener
\* still sees it as active.
C23_AsStated ==
  [][\A e \in Ids :
       DeathStep(e) =>
         LET p == findPlayer(snapshot)
             gained == p # NoEntity /\ level'[p] > level[p]
         IN /\ EventNames(deathLog') =
                 <<"entity:died">>
                 \o (IF hasComponent(e, "Enemy")
                     THEN <<"enemy:killed", "player:exp_gained">>
                          \o (IF gained THEN <<"player:levelup">> ELSE <<>>)
                     ELSE <<>>)
                 \o (IF hasComponent(e, "Player") THEN <<"game:over">> ELSE <<>>)
            /\ \A i \in 1..Len(deathLog') : deathLog'[i].sawActive
            /\ ~active'[e]]_vars

\* C23: during the death handling of one entity the events are emitted in
\* this order: entity:died; then, if it is an Enemy, enemy:killed and, if a
\* Player entity is found among the entities of the update, the
\* experience-gained event and, if the player gained a level, player:levelup;
\* then, if it is the Player, game:over.  The entity's active flag becomes
\* false only after all of these: every listener still sees it as active.
C23_DeathEventOrder ==
  [][\A e \in Ids :
       DeathStep(e) =>
         LET p == findPlayer(snapshot)
             gained == p # NoEntity /\ level'[p] > level[p]
         IN /\ EventNames(deathLog') =
                 <<"entity:died">>
                 \o (IF hasComponent(e, "Enemy")
                     THEN <<"enemy:killed">>
                          \o (IF p # NoEntity THEN <<"player:exp_gained">> ELSE <<>>)
                          \o (IF gained THEN <<"player:levelup">> ELSE <<>>)
                     ELSE <<>>)
                 \o (IF hasComponent(e, "Player") THEN <<"game:over">> ELSE <<>>)
            /\ \A i \in 1..Len(deathLog') : deathLog'[i].sawActive
            /\ ~active'[e]]_vars

\* an enemy's death was handled with a level gained: four events and the
\* notification, then the enemy inactive
C23_Witness ==
  /\ deathLog # <<>>
  /\ \E i \in 1..Len(deathLog) : deathLog[i].name = "player:levelup"
  /\ ~active[deathLog[1].entity]

\* C24: every time an experience award makes the player gain a level, the
\* player's strength increases by 3, defense by 2 and max health by 20, the
\* player's current health is set to the new max health, and exactly one
\* player:levelup event carrying the new level is emitted.
C24_LevelUpEffects ==
  [][\A e \in Ids :
       LET p == findPlayer(snapshot) IN
       (DeathStep(e) /\ p # NoEntity /\ level'[p] > level[p]) =>
         /\ strength'[p] = strength[p] + 3
         /\ defense'[p] = defense[p] + 2
         /\ max'[p] = max[p] + 20
         /\ current'[p] = max'[p]
         /\ Cardinality({i \in 1..Len(deathLog') :
                           deathLog'[i].name = "player:levelup"}) = 1
         /\ \A i \in 1..Len(deathLog') :
              deathLog'[i].name = "player:levelup" => deathLog'[i].level = level'[p]]_vars

\* the player, at level 2 after a kill, has the raised statistics and full health
C24_Witness ==
  \E p \in Ids :
    /\ hasComponent(p, "Player") /\ level[p] = 2 /\ kills[p] = 1
    /\ strength[p] = PlayerStrength + 3
    /\ current[p] = PlayerHealth + 20
    /\ \E i \in 1..Len(deathLog) :
         deathLog[i].name = "player:levelup" /\ deathLog[i].level = 2

\* C25: for every MovementComponent the length of the velocity vector is at
\* most maxSpeed after every setVelocity, addVelocity and moveInDirection
\* call, for every argument.
C25_VelocityWithinMaxSpeed ==
  mvCalled # "none" => atMost(length(mvVelocity), mvMaxSpeed)

\* a living enemy stands within the player's attack range
LivingEnemyInRange(p) ==
  \E i \in 1..Len(entities) : LET e == entities[i] IN
    /\ hasComponent(e, "Enemy") /\ hasComponent(e, "Transform")
    /\ active[e] /\ current[e] > 0
    /\ Abs(pos[p] - pos[e]) <= attackRange(p)

\* C26: an attack input while the player's cooldown has elapsed and at least
\* one living enemy is within attackRange results in an attack request whose
\* target is a living enemy within range, never a floor or wall tile, a dead
\* entity or another entity that is not an enemy.
C26_AttackTargetsLivingEnemy ==
  [][(/\ pc = "idle"
      /\ gamePlayer # NoEntity
      /\ attackLog'.attacker = gamePlayer
      /\ ~attackLog'.byAI
      /\ LivingEnemyInRange(gamePlayer))
     => LET t == attackLog'.target
        IN /\ hasComponent(t, "Enemy")
           /\ current[t] > 0
           /\ Abs(pos[gamePlayer] - pos[t]) <= attackRange(gamePlayer)]_vars

\* C27: while the game is running enemy spawning keeps going: at each spawn
\* tick a new enemy may be spawned whenever fewer than maxEnemies enemies are
\* alive; the cap blocks a spawn only if at least maxEnemies living enemies
\* exist.
C27_CapCountsLivingEnemies ==
  (spawnLog.called /\ spawnLog.blocked) => spawnLog.living >= maxEnemies

\* C28: every entity whose active flag was set to false (by World.destroyEntity
\* or by CombatSystem's death handling) is removed from the World's entities
\* at the latest by the end of the next World.update: an entity stored but
\* already inactive when an update took its snapshot is gone when that update
\* ends.
C28_InactiveRemovedByNextUpdate ==
  [][(pc = "systems" /\ pc' = "idle") =>
       \A e \in Range(entities) :
         e \notin Range(snapshot) => e \notin Range(entities')]_vars

\* C29: if the Player is active with Health.current <= 0 when a World.update
\* begins, then game:over is emitted and the Player is marked inactive during
\* that update, whatever the entity order and whatever else dies in it.  (The
\* entities found dead by CombatSystem's scan that no attack of this update's
\* AI pass killed were dead when the update began.)
C29_DeadPlayerGameOver ==
  AfterLastSystem =>
    \A p \in deadAtScan \ aiKilled :
      hasComponent(p, "Player") => (p \in frameDied /\ ~active[p])

\* C30: after game:over has been emitted for a Player, that dead Player is
\* never again credited with a kill, experience or a level: its kills,
\* experience, level, strength, defense and health stay as they are and no
\* experience-gained or player:levelup event follows.
C30_NoCreditAfterGameOver ==
  [][\A p \in Ids :
       (hasComponent(p, "Player") /\ diedCount[p] > 0) =>
         /\ kills'[p] = kills[p]
         /\ experience'[p] = experience[p]
         /\ level'[p] = level[p]
         /\ strength'[p] = strength[p]
         /\ defense'[p] = defense[p]
         /\ max'[p] = max[p]
         /\ current'[p] = current[p]
         /\ \A e \in Ids :
              DeathStep(e) =>
                \A i \in 1..Len(deathLog') :
                  deathLog'[i].name \notin {"player:exp_gained", "player:levelup"}]_vars

\* C31: an entity whose Health.current is <= 0, or whose active flag is false,
\* never deals damage: an attack request naming it as attacker changes no
\* health and emits no damage:dealt, and AISystem emits no attack request on
\* its behalf.
C31_DeadNeverDealsDamage ==
  [][\A a \in Ids :
       (/\ hasComponent(a, "Health")
        /\ (isDead(current[a]) \/ ~active[a])
        /\ attackLog'.attacker = a)
       => (~attackLog'.dealt /\ ~attackLog'.byAI /\ current' = current)]_vars

\* C32: after every addExperience call with a non-negative amount, and so
\* after every enemy-death experience award, 0 <= experience <
\* experienceToNext holds for the PlayerComponent, for rewards of any size.
C32_ExperienceBelowNext ==
  expLog.called =>
    /\ 0 <= experience[expLog.player]
    /\ experience[expLog.player] < experienceToNext[expLog.player]

\* C33: entity lifecycle requests made between two flush points take effect
\* in the order in which they were made: an entity created with createEntity
\* or addEntity and then passed to destroyEntity or removeEntity before the
\* next flush is not in the World after that flush, and an entity added with
\* addEntity after a removeEntity of the same id is in the World after that
\* flush.  (Both queues are empty again once the flush has run.)
C33_RequestsTakeEffectInOrder ==
  (lifeLog.called /\ pc = "idle" /\ entitiesToAdd = <<>> /\ entitiesToRemove = <<>>) =>
    /\ (lifeLog.first = "addEntity") => ~getEntity(lifeLog.id)
    /\ (lifeLog.second = "addEntity") => getEntity(lifeLog.id)

\* C34: after AISystem processes any non-dead AI entity, its targetId is
\* non-null only if a player is present and within the entity's aggroRange in
\* that frame: for every behaviour type (aggressive, ranged, patrol, flee) an
\* entity whose player is outside aggro range, or for which no player exists,
\* ends the frame with targetId = null.
C34_TargetOnlyWithinAggroRange ==
  [][ \A e \in Ids :
        (Processes(e) /\ aiState[e] # "dead" /\ targetId'[e] # NoEntity) =>
          /\ playerEntity # NoEntity
          /\ Abs(pos[e] - pos[playerEntity]) * TileSize <= aiAggro[e] ]_vars

\* C35: every pair of active collidable entities whose shapes overlap at the
\* start of CollisionSystem.update and whose layers and masks admit each other
\* is reported in that update (a collision event is emitted for it), whatever
\* the colliders' sizes and positions, including colliders larger than a grid
\* cell and pairs whose centres lie in non-adjacent grid cells.
C35_EveryOverlapReported ==
  [][CollisionStep =>
       \A a \in Ids, b \in Ids :
         (/\ CollidablePair(a, b)
          /\ CirclesOverlap(a, b)
          /\ layer(b) \in mask(a) /\ layer(a) \in mask(b))
         => \E i \in 1..Len(collisionLog') :
              {collisionLog'[i].entityA, collisionLog'[i].entityB} = {a, b}]_vars

\* C36: within one CollisionSystem.update at most one collision event is
\* emitted per unordered pair {A, B} of entities (and so the resolution is
\* applied to that pair at most once).
C36_OneEventPerPair ==
  [][CollisionStep =>
       \A i \in 1..Len(collisionLog'), j \in 1..Len(collisionLog') :
         i # j => {collisionLog'[i].entityA, collisionLog'[i].entityB}
                    # {collisionLog'[j].entityA, collisionLog'[j].entityB}]_vars

\* ---- EventBus with callbacks that call the bus
\* C37: in the EventBus with separate once-listeners, a callback registered
\* with once(event, cb) is called at most once over any sequence of emits,
\* also when a listener or cb itself emits the same event again during the
\* dispatch that calls cb; and it is never called if it was removed with off
\* or with its subscription's unsubscribe before the dispatch reached the
\* once-listeners.
C37_OnceCalledAtMostOnce ==
  \A cb \in Callbacks :
    /\ onceLog[cb].calls <= 1
    /\ onceLog[cb].removed => onceLog[cb].calls = 0

\* a once-listener was called, the event was emitted again from inside the
\* dispatch of the once-listeners, and the second emit has gone past its own
\* once-listeners without anything left to call
C37_Witness ==
  /\ Len(busStack) = 2
  /\ busStack[1].event = busStack[2].event
  /\ busStack[1].phase = "once"
  /\ busStack[2].phase = "once" /\ busStack[2].listenersCopy = <<>>
  /\ \E cb \in Callbacks : onceLog[cb].calls = 1 /\ busCalled[1] = <<cb>>

\* C39: one emit calls exactly the listeners registered when that emit
\* began: a listener subscribed (with on or once) from inside a handler is
\* not called by the emit in progress, and a listener unsubscribed from
\* inside a handler is still called by the emit in progress.  At every
\* moment an emit has called only callbacks that were registered when it
\* began, and all of them when it is about to return.
C39_EmitCallsListenersOfItsStart ==
  \A i \in 1..Len(busStack) :
    /\ Range(busCalled[i]) \subseteq Range(busExpected[i])
    /\ (i = Len(busStack) /\ busStack[i].phase = "once"
          /\ busStack[i].listenersCopy = <<>>)
         => Range(busExpected[i]) \subseteq Range(busCalled[i])

\* ---- the typed EventBus
\* C38: in the typed EventBus a handler registered with once(eventType,
\* handler) is invoked for exactly one emit and never again, also when the
\* handler itself or another handler of the same dispatch emits the same
\* event type again before the automatic unsubscription.
C38_TypedOnceInvokedOnce ==
  \A cb \in Callbacks : typedInvoked[cb] <= 1

\* ---- ObjectPool
\* a sequence without repetition
NoRepeat(s) == \A i \in 1..Len(s), j \in 1..Len(s) : i # j => s[i] # s[j]

\* C40: ObjectPool never hands out an object that is still in use: between
\* an acquire() that returns o and the next release(o) or releaseAll(), no
\* acquire() returns o; and release(o) for an object that is not in use
\* leaves the available list and the in-use set unchanged, so that o is never
\* stored twice (no object is twice in the available list, and none is both
\* available and in use).
C40_NeverHandedOutInUse ==
  /\ [](NoRepeat(available) /\ Range(available) \cap Range(inUse) = {})
  /\ [][/\ poolLog'.op = "acquire" => poolLog'.obj \notin held
        /\ (poolLog'.op = "release" /\ poolLog'.obj \notin Range(inUse)) =>
             (available' = available /\ inUse' = inUse)]_vars

\* acquire has just handed out an object that waited in the available list,
\* not the one made last, while another object is still in use
C40_Witness ==
  /\ poolLog.op = "acquire" /\ poolLog.from = "available"
  /\ Cardinality(held) >= 2
  /\ Len(inUse) >= 2
  /\ poolLog.obj < created

======================================================================
